---- MODULE Spec2Model ----
(***************************************************************************)
(* EvoMaster tool orchestration runtime.                                   *)
(*                                                                         *)
(* Part I  (specification Spec): MCPToolManager, the supervisor of MCP    *)
(*   server fibers (evomaster/agent/tools/mcp/mcp_manager.py).  The       *)
(*   coroutines that run on manager.loop are modelled as processes that   *)
(*   take one atomic step between two suspension points (await).          *)
(* Part II (specification BridgeSpec): MCPTool._call_mcp_tool_sync, the   *)
(*   bridge from a synchronous caller to the tool loop                    *)
(*   (evomaster/agent/tools/mcp/mcp.py).                                  *)
(* Part III (NormalizeSpec) and Part IV (PlannerSpec, PlannerLiveSpec):   *)
(*   plan normalization, the protocol watchdog and ResearchPlanner.run    *)
(*   (playground/mat_master/core/solvers/research_planner.py).            *)
(* Part V (CalcSpec, CalcLiveSpec): ResilientCalcExp.run.                 *)
(* Part VI (AdaptSpec): CalculationPathAdaptor.resolve_args.              *)
(* Part VII (EvoSpec): SkillEvolutionExp.run.                             *)
(* Part VIII (PlaygroundSpec): BasePlayground.run and cleanup             *)
(*   (evomaster/core/playground.py).                                      *)
(***************************************************************************)
EXTENDS Integers, Sequences, FiniteSets, TLC

(***************************************************************************)
(* Bounds of the model.                                                    *)
(***************************************************************************)
\* total number of API calls (add/remove/reload/cleanup) and task
\* cancellations in one behaviour
MaxCalls == 3
\* seconds the bridge clock may run past the deadline
MaxOverrun == 2
\* number of tool invocations the synchronous caller makes
MaxInvocations == 2

(***************************************************************************)
(* Inputs.                                                                 *)
(***************************************************************************)
\* coroutines that call the manager's API on the loop
Callers == {1, 2}
\* server names; one is a prefix of the other followed by "_"
ServerNames == {"a", "a_b"}
\* remote tool names a server may report from list_tools
RemoteNames == {"c", "b_c"}
\* the tool lists list_tools may return (dicts keyed by name: order and
\* duplicates of the list do not survive _build_tools)
ToolLists == {{"c"}, {"c", "b_c"}}
\* manager.tool_include_only: an allowlist for "a_b", none for "a"
IncludeOnly == [n \in {"a_b"} |-> {"c"}]
\* a tool the registry holds that does not come from MCP
BuiltinTool == [conn |-> 0, server |-> "None", remote |-> "finish", loop |-> "None"]

(***************************************************************************)
(* Python dict helpers.                                                    *)
(***************************************************************************)
Put(d, k, v) == [x \in (DOMAIN d) \cup {k} |-> IF x = k THEN v ELSE d[x]]

Pop(d, k) == [x \in (DOMAIN d) \ {k} |-> d[x]]

\* pops every key of ks
PopAll(d, ks) == [x \in (DOMAIN d) \ ks |-> d[x]]

\* d updated with every entry of e (e wins)
Update(d, e) == [x \in (DOMAIN d) \cup (DOMAIN e) |-> IF x \in DOMAIN e THEN e[x] ELSE d[x]]

EmptyDict == <<>>

(***************************************************************************)
(* State.                                                                  *)
(***************************************************************************)
VARIABLES
    \* ---- MCPToolManager fields ----
    loop,                 \* manager.loop: "None" or "L"
    server_tasks,         \* _server_tasks: name -> fiber id
    server_stop,          \* _server_stop: name -> id of the fiber whose stop event it is
    server_ready,         \* _server_ready: name -> id of the fiber whose ready event it is
    connections,          \* connections: name -> id of the fiber that opened it
    tools_by_server,      \* tools_by_server: name -> (qualified name -> MCPTool)
    registered_registry,  \* _registered_registry: "None" or "R"
    tool_include_only,    \* tool_include_only: name -> set of remote names
    \* ---- the ToolRegistry R ----
    registry,             \* qualified name -> tool
    \* ---- the loop's tasks ----
    fibers,               \* sequence of server fibers (runner tasks), by id
    callers,              \* the API-calling coroutines
    calls,                \* number of API calls made so far
    \* ---- history (not read by any action's guard) ----
    pair,                 \* the add_server(X); remove_server(X) pair under observation
    \* ---- Part II: the bridge ----
    mcp_loop,             \* the loop injected into the tool: "None", "closed", "stopped", "running"
    clock,                \* seconds since the caller entered _call_mcp_tool_sync
    invocations,          \* sequence of the caller's invocations
    caller_pc,            \* position of the synchronous caller
    \* ---- Part III: plan normalization and validation ----
    n_pc,                 \* "raw", "normalized", "renormalized", "validated"
    n_max,                \* max_steps
    n_raw,                \* the plan as parsed from the reply
    n_once,               \* _normalize_plan(raw)
    n_twice,              \* _normalize_plan(_normalize_plan(raw))
    n_valid,              \* _validate_plan_safety(n_once)
    \* ---- Part IV: ResearchPlanner.run ----
    p_pc,                 \* position of run
    p_cfg,                \* [human_check, max_steps]
    p_task,               \* task_description of the current run
    p_file,               \* research_state.json: Absent, Partial or Complete(state)
    p_tmp,                \* research_state.tmp: Absent, Partial or Complete(state)
    p_state,              \* the state dict of run (plan is state["plan"])
    p_idx,                \* index of the step the execution loop is at
    p_save,               \* position inside _save_state: "none", "open", "dump", "move"
    p_result,             \* the value run returned
    p_runs,               \* number of runs started
    \* ---- history (not read by any action's guard) ----
    p_log,                \* what happened in the current run
    p_foreign,            \* research_state.json was there before the first run
    p_eof,                \* sys.stdin is exhausted: readline() returns ""
    \* ---- Part V: ResilientCalcExp.run ----
    r_pc,                 \* position of run
    r_cfg,                \* [max_retries, error_handlers]
    r_job,                \* job_id
    r_retries,            \* retries
    r_result,             \* the value run returned
    r_log,                \* history: what the run has done
    \* ---- Part VI: CalculationPathAdaptor.resolve_args ----
    a_pc,                 \* "idle", "called", "resolved", "again"
    a_in,                 \* the arguments of the call and the files of the workspace
    a_out,                \* what resolve_args gave
    a_again,              \* what resolve_args gave for its own result
    a_uploads,            \* history: the paths handed to upload_file_to_oss
    \* ---- Part VII: SkillEvolutionExp.run ----
    e_pc,                 \* position of run
    e_fs,                 \* the files the agent left under the run directory
    e_registry,           \* agent.skill_registry
    e_result,             \* the value run returned
    e_runs,               \* number of runs started
    e_log,                \* history: the sandbox test and the registrations
    \* ---- Part VIII: the playground's run and cleanup ----
    g_pc,                 \* position of run
    g_cfg,                \* [mcp, keep]: MCP servers configured; Docker session kept
    g_mcp_manager,        \* self.mcp_manager: "unset" (no such attribute), "None" or "M"
    g_mcp_loop,           \* self._mcp_loop: "None" or "running"
    g_session,            \* self.session: "None", "made", "open" or "closed"
    g_exc,                \* the exception in flight inside run's try
    g_result,             \* how run ended
    g_runs,               \* number of runs started
    g_log                 \* history: what the current run has done

mgrVars == <<loop, server_tasks, server_stop, server_ready, connections,
             tools_by_server, registered_registry, tool_include_only>>

loopVars == <<registry, fibers, callers, calls, pair>>

bridgeVars == <<mcp_loop, clock, invocations, caller_pc>>

normVars == <<n_pc, n_max, n_raw, n_once, n_twice, n_valid>>

runVars == <<p_pc, p_cfg, p_task, p_file, p_tmp, p_state, p_idx, p_save, p_result,
             p_runs, p_log, p_foreign, p_eof>>

plannerVars == <<normVars, runVars>>

calcVars == <<r_pc, r_cfg, r_job, r_retries, r_result, r_log>>

adaptVars == <<a_pc, a_in, a_out, a_again, a_uploads>>

evoVars == <<e_pc, e_fs, e_registry, e_result, e_runs, e_log>>

pgVars == <<g_pc, g_cfg, g_mcp_manager, g_mcp_loop, g_session, g_exc, g_result, g_runs, g_log>>

expVars == <<calcVars, adaptVars, evoVars, pgVars>>

vars == <<mgrVars, loopVars, bridgeVars, plannerVars, expVars>>

(***************************************************************************)
(* Part I.  Pure helpers of MCPToolManager.                                *)
(***************************************************************************)
\* mcp_manager.py:92  prefixed_name = f"{server_name}_{original_name}"
QualifiedName(server_name, original_name) == server_name \o "_" \o original_name

\* mcp_manager.py:84-86  the per-server allowlist filter of _build_tools
FilterTools(include_only, server_name, tools_info) ==
    IF server_name \in DOMAIN include_only
    THEN {t \in tools_info : t \in include_only[server_name]}
    ELSE tools_info

\* a mutant of BuildTools: the allowlist is not applied
BuildToolsNoFilter(include_only, server_name, connection, tools_info, lp) ==
    [q \in {QualifiedName(server_name, t) : t \in tools_info} |->
        [conn   |-> connection,
         server |-> server_name,
         remote |-> CHOOSE t \in tools_info : QualifiedName(server_name, t) = q,
         loop   |-> lp]]

\* mcp_manager.py:81-108  _build_tools: the dict prefixed_name -> MCPTool that
\* becomes tools_by_server[server_name]
BuildTools(include_only, server_name, connection, tools_info, lp) ==
    LET kept == FilterTools(include_only, server_name, tools_info)
    IN  [q \in {QualifiedName(server_name, t) : t \in kept} |->
            [conn   |-> connection,
             server |-> server_name,
             remote |-> CHOOSE t \in kept : QualifiedName(server_name, t) = q,
             loop   |-> lp]]

\* mcp_manager.py:261-276  reload_server builds its tools without the
\* allowlist, without remote_tool_name and without injecting the loop
ReloadBuildTools(server_name, connection, tools_info) ==
    [q \in {QualifiedName(server_name, t) : t \in tools_info} |->
        [conn |-> connection, server |-> server_name, remote |-> "None", loop |-> "None"]]

(***************************************************************************)
(* The ToolRegistry (evomaster/agent/tools/base.py is not part of the      *)
(* sources at hand; modelled from the specification, section 4.E: a flat   *)
(* mapping qualified_name -> callable, registration idempotent per name).  *)
(***************************************************************************)
\* registry.register(tool) for every tool of the dict `tools`
RegisterAll(reg, tools) == Update(reg, tools)

\* registry.unregister(name) for every name of `names`
UnregisterAll(reg, names) == PopAll(reg, names)

(***************************************************************************)
(* Server fibers: the runner task of add_server.                           *)
(*   pc: "unspawned" events created, task never created                    *)
(*       "new"       task created, create_connection not yet entered       *)
(*       "listing"   connection open, awaiting conn.list_tools()           *)
(*       "waiting"   ready, awaiting stop_evt.wait()                       *)
(*       "closing"   unwinding the async with (__aexit__)                  *)
(*       "done" / "failed" / "cancelled"   the task has ended              *)
(*   exc: the exception in flight or the task ended with                   *)
(*   conn: state of the connection the fiber opened                        *)
(*   stop, ready: the two asyncio.Event objects made for the fiber         *)
(***************************************************************************)
\* mcp_manager.py:120-121  the events of a fiber that is about to be made
NewFiber(n) ==
    [name |-> n, pc |-> "unspawned", exc |-> "none", conn |-> "none",
     stop |-> FALSE, ready |-> FALSE]

\* asyncio: task.done()
TaskDone(f) == f.pc \in {"done", "failed", "cancelled"}

\* the manager's mutable state, the registry and the fibers as one record, so
\* that the synchronous stretches of the coroutines are functions of it
M ==
    [server_tasks |-> server_tasks, server_stop |-> server_stop,
     server_ready |-> server_ready, connections |-> connections,
     tools_by_server |-> tools_by_server,
     registered_registry |-> registered_registry,
     registry |-> registry, fibers |-> fibers]

SetM(m) ==
    /\ server_tasks' = m.server_tasks
    /\ server_stop' = m.server_stop
    /\ server_ready' = m.server_ready
    /\ connections' = m.connections
    /\ tools_by_server' = m.tools_by_server
    /\ registered_registry' = m.registered_registry
    /\ registry' = m.registry
    /\ fibers' = m.fibers

\* a mutant of AddServerPurge: the connection entry is left behind
AddServerPurgeKeepsConnection(m, name) ==
    [m EXCEPT !.server_tasks = Pop(@, name), !.server_stop = Pop(@, name),
              !.server_ready = Pop(@, name), !.tools_by_server = Pop(@, name)]

\* mcp_manager.py:172-177  add_server drops every record of a failed server
AddServerPurge(m, name) ==
    [m EXCEPT !.server_tasks = Pop(@, name), !.server_stop = Pop(@, name),
              !.server_ready = Pop(@, name), !.connections = Pop(@, name),
              !.tools_by_server = Pop(@, name)]

\* mcp_manager.py:221-228  remove_server step 3: drop the local records
RemoveServerPurge(m, server_name) ==
    [m EXCEPT !.server_tasks = Pop(@, server_name), !.server_stop = Pop(@, server_name),
              !.server_ready = Pop(@, server_name), !.connections = Pop(@, server_name),
              !.tools_by_server = Pop(@, server_name)]

\* a mutant of RemoveServerUnregister: the tools are left in the registry
RemoveServerUnregisterNothing(m, server_name) == m

\* mcp_manager.py:207-210  remove_server step 1: unregister the server's tools
RemoveServerUnregister(m, server_name) ==
    IF m.registered_registry # "None" /\ server_name \in DOMAIN m.tools_by_server
    THEN [m EXCEPT !.registry = UnregisterAll(@, DOMAIN m.tools_by_server[server_name])]
    ELSE m

\* mcp_manager.py:212-215  remove_server step 2: set the stop event
RemoveServerSignal(m, server_name) ==
    IF server_name \in DOMAIN m.server_stop
    THEN [m EXCEPT !.fibers[m.server_stop[server_name]].stop = TRUE]
    ELSE m

\* mcp_manager.py:219-230  what `await task` gives once the task has ended,
\* and the purge that follows a clean exit
RemoveServerAwaited(m, server_name, task) ==
    LET f == m.fibers[task]
    IN  CASE f.pc = "done"      -> [m |-> RemoveServerPurge(m, server_name), out |-> "ok", task |-> task]
          [] f.pc = "failed"    -> [m |-> m, out |-> f.exc, task |-> task]
          [] f.pc = "cancelled" -> [m |-> m, out |-> "CancelledError", task |-> task]

\* mcp_manager.py:202-219  remove_server on the loop, up to its first
\* suspension: out = "wait" when it suspends in `await task`
RemoveServerSync(m, server_name) ==
    IF server_name \notin DOMAIN m.server_tasks
    THEN [m |-> m, out |-> "not_found", task |-> 0]
    ELSE LET m2   == RemoveServerSignal(RemoveServerUnregister(m, server_name), server_name)
             task == m2.server_tasks[server_name]
         IN  IF TaskDone(m2.fibers[task])
             THEN RemoveServerAwaited(m2, server_name, task)
             ELSE [m |-> m2, out |-> "wait", task |-> task]

(***************************************************************************)
(* The API-calling coroutines.                                             *)
(*   pc: "idle", "add_wait" (await ready_evt.wait()), "remove_wait"        *)
(*       (await task), "reload_list" (await connection.list_tools())       *)
(*   op: the API call in progress;  result: how the last call ended        *)
(*   mark (history): the number of fibers made when cleanup was called     *)
(***************************************************************************)
Idle(res) ==
    [pc |-> "idle", op |-> "none", name |-> "", task |-> 0, conn |-> 0,
     todo |-> <<>>, failed |-> {}, mark |-> 0, result |-> res]

\* asyncio.get_running_loop() is self.loop
OnLoop(onloop) == loop = "L" /\ onloop

\* the names of a dict whose values are fiber ids, in insertion order: ids are
\* handed out in increasing order, so insertion order is the order of the ids
RECURSIVE KeysInOrder(_)
KeysInOrder(d) ==
    IF DOMAIN d = {} THEN <<>>
    ELSE LET k == CHOOSE x \in DOMAIN d : \A y \in DOMAIN d : d[x] <= d[y]
         IN  <<k>> \o KeysInOrder(Pop(d, k))

\* a mutant of CleanupEnd: the references are cleared even after a failure
CleanupEndAlwaysClears(m, failed) ==
    [m |-> [m EXCEPT !.connections = EmptyDict, !.tools_by_server = EmptyDict,
                     !.registered_registry = "None"],
     c |-> Idle("cleanup_complete")]

\* mcp_manager.py:302-310  the end of cleanup
CleanupEnd(m, failed) ==
    IF failed # {}
    THEN [m |-> m, c |-> Idle("cleanup_incomplete")]
    ELSE [m |-> [m EXCEPT !.connections = EmptyDict, !.tools_by_server = EmptyDict,
                          !.registered_registry = "None"],
          c |-> Idle("cleanup_complete")]

\* mcp_manager.py:295-300  the loop of cleanup from the name at the head of
\* `todo`, up to the next suspension or to the end
RECURSIVE CleanupLoop(_, _, _, _)
CleanupLoop(m, todo, failed, mark) ==
    IF todo = <<>> THEN CleanupEnd(m, failed)
    ELSE LET r == RemoveServerSync(m, Head(todo))
         IN  CASE r.out = "wait" ->
                    [m |-> r.m,
                     c |-> [pc |-> "remove_wait", op |-> "cleanup", name |-> Head(todo),
                            task |-> r.task, conn |-> 0, todo |-> Tail(todo),
                            failed |-> failed, mark |-> mark, result |-> "pending"]]
               [] r.out = "ok" -> CleanupLoop(r.m, Tail(todo), failed, mark)
               \* 298: `except Exception` does not catch CancelledError
               [] r.out = "CancelledError" -> [m |-> r.m, c |-> Idle("CancelledError")]
               [] OTHER -> CleanupLoop(r.m, Tail(todo), failed \cup {Head(todo)}, mark)

(***************************************************************************)
(* History: the pair add_server(X); remove_server(X) of one caller, made   *)
(* while no other caller is in a call and no other fiber is starting.      *)
(*   snap: the registry before the pair;  names: the qualified names of    *)
(*   the tools X was added with                                            *)
(***************************************************************************)
NoPair == [stage |-> "none", c |-> 0, name |-> "", snap |-> <<>>, names |-> {}]

Quiet(c) ==
    /\ \A d \in Callers \ {c} : callers[d].pc = "idle"
    /\ \A i \in 1..Len(fibers) : fibers[i].pc \notin {"new", "listing"}

(***************************************************************************)
(* add_server                                                              *)
(***************************************************************************)
\* a mutant of AddServerSync: the events are stored before the name is checked
AddServerSyncStoresFirst(m, name, onloop, lp) ==
    LET id == Len(m.fibers) + 1
        m1 == [m EXCEPT !.server_stop = Put(@, name, id),
                        !.server_ready = Put(@, name, id),
                        !.fibers = Append(@, NewFiber(name))]
    IN  IF name \in DOMAIN m.server_tasks THEN [m |-> m1, out |-> "already_exists", task |-> 0]
        ELSE IF lp = "None" THEN [m |-> m, out |-> "RuntimeError", task |-> 0]
        ELSE IF ~onloop THEN [m |-> m1, out |-> "RuntimeError", task |-> 0]
        ELSE [m |-> [m1 EXCEPT !.fibers[id].pc = "new",
                               !.server_tasks = Put(@, name, id)],
              out |-> "wait", task |-> id]

\* mcp_manager.py:110-170  add_server up to `await ready_evt.wait()`
AddServerSync(m, name, onloop, lp) ==
    LET id == Len(m.fibers) + 1
        \* 120-123: the two events, stored under the name
        m1 == [m EXCEPT !.server_stop = Put(@, name, id),
                        !.server_ready = Put(@, name, id),
                        !.fibers = Append(@, NewFiber(name))]
    IN  IF name \in DOMAIN m.server_tasks THEN [m |-> m, out |-> "already_exists", task |-> 0]
        ELSE IF lp = "None" THEN [m |-> m, out |-> "RuntimeError", task |-> 0]
        \* 158-162: the loop is checked after the events were stored
        ELSE IF ~onloop THEN [m |-> m1, out |-> "RuntimeError", task |-> 0]
        \* 164-167: the task is created and stored
        ELSE [m |-> [m1 EXCEPT !.fibers[id].pc = "new",
                               !.server_tasks = Put(@, name, id)],
              out |-> "wait", task |-> id]

AddServer(c, name, onloop) ==
    /\ callers[c].pc = "idle"
    /\ calls < MaxCalls
    /\ calls' = calls + 1
    /\ LET r == AddServerSync(M, name, onloop, loop)
       IN  /\ SetM(r.m)
           /\ IF r.out = "wait"
              THEN /\ callers' = [callers EXCEPT ![c] =
                          [Idle("pending") EXCEPT !.pc = "add_wait", !.op = "add",
                                                 !.name = name, !.task = r.task]]
                   /\ pair' = IF Quiet(c)
                              THEN [stage |-> "adding", c |-> c, name |-> name, snap |-> registry,
                                    names |-> {}]
                              ELSE NoPair
              ELSE /\ callers' = [callers EXCEPT ![c] = Idle(r.out)]
                   /\ pair' = NoPair
    /\ UNCHANGED <<loop, tool_include_only, bridgeVars, plannerVars,
                   expVars>>

\* mcp_manager.py:170-179  add_server after `await ready_evt.wait()`
AddServerAwaited(m, name, task) ==
    LET f == m.fibers[task]
    IN  CASE f.pc = "failed"    -> [m |-> AddServerPurge(m, name), out |-> f.exc]
          \* task.exception() of a cancelled task raises CancelledError
          [] f.pc = "cancelled" -> [m |-> m, out |-> "CancelledError"]
          [] OTHER              -> [m |-> m, out |-> "ok"]

AddServerResume(c) ==
    /\ callers[c].pc = "add_wait"
    /\ fibers[callers[c].task].ready
    /\ LET r == AddServerAwaited(M, callers[c].name, callers[c].task)
       IN  /\ SetM(r.m)
           /\ callers' = [callers EXCEPT ![c] = Idle(IF r.out = "ok" THEN "added" ELSE r.out)]
           /\ pair' = IF pair.c = c /\ pair.stage = "adding" /\ r.out = "ok"
                      THEN [pair EXCEPT !.stage = "added",
                                        !.names = IF pair.name \in DOMAIN r.m.tools_by_server
                                                  THEN DOMAIN r.m.tools_by_server[pair.name]
                                                  ELSE {}]
                      ELSE NoPair
    /\ UNCHANGED <<loop, tool_include_only, calls, bridgeVars, plannerVars,
                   expVars>>

(***************************************************************************)
(* remove_server                                                           *)
(***************************************************************************)
RemoveServer(c, server_name, onloop) ==
    /\ callers[c].pc = "idle"
    /\ calls < MaxCalls
    /\ calls' = calls + 1
    /\ IF ~OnLoop(onloop)
       THEN \* 200-201
            /\ callers' = [callers EXCEPT ![c] = Idle("RuntimeError")]
            /\ pair' = NoPair
            /\ UNCHANGED <<server_tasks, server_stop, server_ready, connections,
                           tools_by_server, registered_registry, registry, fibers>>
       ELSE LET r == RemoveServerSync(M, server_name)
                mine == pair.c = c /\ pair.stage = "added" /\ pair.name = server_name
            IN  /\ SetM(r.m)
                /\ IF r.out = "wait"
                   THEN /\ callers' = [callers EXCEPT ![c] =
                               [Idle("pending") EXCEPT !.pc = "remove_wait", !.op = "remove",
                                                      !.name = server_name, !.task = r.task]]
                        /\ pair' = IF mine THEN [pair EXCEPT !.stage = "removing"] ELSE NoPair
                   ELSE /\ callers' = [callers EXCEPT ![c] =
                               Idle(IF r.out = "ok" THEN "removed" ELSE r.out)]
                        /\ pair' = IF mine /\ r.out = "ok"
                                   THEN [pair EXCEPT !.stage = "done"] ELSE NoPair
    /\ UNCHANGED <<loop, tool_include_only, bridgeVars, plannerVars,
                   expVars>>

\* the caller resumes from `await task`: in remove_server itself, in the
\* remove_server of reload_server (253) or in the one of cleanup (297)
RemoveServerResume(c) ==
    /\ callers[c].pc = "remove_wait"
    /\ TaskDone(fibers[callers[c].task])
    /\ LET me == callers[c]
           r  == RemoveServerAwaited(M, me.name, me.task)
       IN  CASE me.op = "remove" ->
                  /\ SetM(r.m)
                  /\ callers' = [callers EXCEPT ![c] =
                         Idle(IF r.out = "ok" THEN "removed" ELSE r.out)]
                  /\ pair' = IF pair.c = c /\ pair.stage = "removing" /\ r.out = "ok"
                             THEN [pair EXCEPT !.stage = "done"] ELSE NoPair
             [] me.op = "reload" ->
                  /\ SetM(r.m)
                  /\ callers' = [callers EXCEPT ![c] =
                         IF r.out = "ok" THEN [me EXCEPT !.pc = "reload_list", !.task = 0]
                         ELSE Idle(r.out)]
                  /\ pair' = NoPair
             [] me.op = "cleanup" ->
                  LET k == CASE r.out = "ok" -> CleanupLoop(r.m, me.todo, me.failed, me.mark)
                             [] r.out = "CancelledError" -> [m |-> r.m, c |-> Idle("CancelledError")]
                             [] OTHER -> CleanupLoop(r.m, me.todo, me.failed \cup {me.name}, me.mark)
                  IN  /\ SetM(k.m)
                      /\ callers' = [callers EXCEPT ![c] = k.c]
                      /\ pair' = NoPair
    /\ UNCHANGED <<loop, tool_include_only, calls, bridgeVars, plannerVars,
                   expVars>>

(***************************************************************************)
(* reload_server                                                           *)
(***************************************************************************)
ReloadServer(c, server_name, onloop) ==
    /\ callers[c].pc = "idle"
    /\ calls < MaxCalls
    /\ calls' = calls + 1
    /\ pair' = NoPair
    /\ IF server_name \notin DOMAIN connections
       THEN \* 243-244
            /\ callers' = [callers EXCEPT ![c] = Idle("not_found")]
            /\ UNCHANGED <<server_tasks, server_stop, server_ready, connections,
                           tools_by_server, registered_registry, registry, fibers>>
       ELSE IF ~OnLoop(onloop)
       THEN \* 253 -> 200-201
            /\ callers' = [callers EXCEPT ![c] = Idle("RuntimeError")]
            /\ UNCHANGED <<server_tasks, server_stop, server_ready, connections,
                           tools_by_server, registered_registry, registry, fibers>>
       ELSE LET connection == connections[server_name]
                r == RemoveServerSync(M, server_name)
            IN  /\ SetM(r.m)
                /\ callers' = [callers EXCEPT ![c] =
                       CASE r.out = "wait" ->
                              [Idle("pending") EXCEPT !.pc = "remove_wait", !.op = "reload",
                                   !.name = server_name, !.task = r.task, !.conn = connection]
                         [] r.out = "ok" ->
                              [Idle("pending") EXCEPT !.pc = "reload_list", !.op = "reload",
                                   !.name = server_name, !.conn = connection]
                         [] OTHER -> Idle(r.out)]
    /\ UNCHANGED <<loop, tool_include_only, bridgeVars, plannerVars,
                   expVars>>

\* mcp_manager.py:256-284  reload_server after `await connection.list_tools()`
\* on the connection it saved; what list_tools does on a connection whose
\* fiber has closed it is an input: it raises, or it answers
ReloadServerListed(c, raises, tools_info) ==
    /\ callers[c].pc = "reload_list"
    /\ pair' = NoPair
    /\ LET me == callers[c]
           server_tools == ReloadBuildTools(me.name, me.conn, tools_info)
       IN  IF raises
           THEN /\ callers' = [callers EXCEPT ![c] = Idle("reload_list_failed")]
                /\ UNCHANGED <<tools_by_server, connections, registry>>
           ELSE /\ tools_by_server' = Put(tools_by_server, me.name, server_tools)
                /\ connections' = Put(connections, me.name, me.conn)
                /\ registry' = IF registered_registry # "None"
                               THEN RegisterAll(registry, server_tools) ELSE registry
                /\ callers' = [callers EXCEPT ![c] = Idle("reloaded")]
    /\ UNCHANGED <<loop, server_tasks, server_stop, server_ready, registered_registry,
                   tool_include_only, fibers, calls, bridgeVars, plannerVars,
                   expVars>>

(***************************************************************************)
(* cleanup                                                                 *)
(***************************************************************************)
Cleanup(c, onloop) ==
    /\ callers[c].pc = "idle"
    /\ calls < MaxCalls
    /\ calls' = calls + 1
    /\ pair' = NoPair
    /\ IF ~OnLoop(onloop)
       THEN \* 290-291
            /\ callers' = [callers EXCEPT ![c] = Idle("RuntimeError")]
            /\ UNCHANGED <<server_tasks, server_stop, server_ready, connections,
                           tools_by_server, registered_registry, registry, fibers>>
       ELSE LET k == CleanupLoop(M, KeysInOrder(server_tasks), {}, Len(fibers))
            IN  /\ SetM(k.m)
                /\ callers' = [callers EXCEPT ![c] = k.c]
    /\ UNCHANGED <<loop, tool_include_only, bridgeVars, plannerVars,
                   expVars>>

(***************************************************************************)
(* register_tools, and the playground's setting of manager.loop            *)
(***************************************************************************)
\* mcp_manager.py:182-197  tools_by_server is walked in insertion order; the
\* order is not part of the state, so when two servers hold the same
\* qualified name either may be registered last
RegisterTools(last) ==
    /\ last \in DOMAIN tools_by_server \/ (DOMAIN tools_by_server = {} /\ last = "")
    /\ registered_registry' = "R"
    /\ registry' =
          LET others == DOMAIN tools_by_server \ {last}
              RECURSIVE Walk(_, _)
              Walk(reg, names) ==
                  IF names = {} THEN reg
                  ELSE LET n == CHOOSE x \in names : TRUE
                       IN  Walk(RegisterAll(reg, tools_by_server[n]), names \ {n})
              first == Walk(registry, others)
          IN  IF last = "" THEN first ELSE RegisterAll(first, tools_by_server[last])
    /\ pair' = NoPair
    /\ UNCHANGED <<loop, server_tasks, server_stop, server_ready, connections,
                   tools_by_server, tool_include_only, fibers, callers, calls, bridgeVars, plannerVars,
                   expVars>>

\* core/playground.py:599  manager.loop = self._mcp_loop
SetLoop ==
    /\ loop = "None"
    /\ loop' = "L"
    /\ UNCHANGED <<server_tasks, server_stop, server_ready, connections, tools_by_server,
                   registered_registry, tool_include_only, loopVars, bridgeVars, plannerVars,
                   expVars>>

(***************************************************************************)
(* The runner task (mcp_manager.py:125-155).  What the connection does     *)
(* (create_connection, list_tools, close: mcp_connection.py is not part of *)
(* the sources at hand) is an input of each step.                          *)
(***************************************************************************)
\* The loop runs its ready callbacks first in, first out: once a fiber has
\* set its ready event, the add_server that waits for it resumes before the
\* fiber is resumed again.
AddServerPending(id) ==
    \E c \in Callers :
        callers[c].pc = "add_wait" /\ callers[c].task = id /\ fibers[id].ready

\* mcp_manager.py:147-151  the task ends: `except Exception` sets the ready
\* event and re-raises; CancelledError is not an Exception
RunnerEnd(f, exc) ==
    CASE exc = "none"      -> [f EXCEPT !.pc = "done", !.exc = "none"]
      [] exc = "cancelled" -> [f EXCEPT !.pc = "cancelled", !.exc = "cancelled"]
      [] OTHER             -> [f EXCEPT !.pc = "failed", !.exc = exc, !.ready = TRUE]

\* a mutant of RunnerUnwind: the connection is not held by an async with, and
\* an exception ends the task without closing it
RunnerUnwindNoClose(f, exc) == RunnerEnd(f, exc)

\* mcp_manager.py:128  an exception inside the async with enters __aexit__
RunnerUnwind(f, exc) == [f EXCEPT !.pc = "closing", !.exc = exc]

\* mcp_manager.py:128-130  `async with create_connection(...) as conn`
RunnerOpen(id, ok) ==
    /\ id \in 1..Len(fibers)
    /\ fibers[id].pc = "new"
    /\ IF ok
       THEN /\ fibers' = [fibers EXCEPT ![id].pc = "listing", ![id].conn = "open"]
            /\ connections' = Put(connections, fibers[id].name, id)
       ELSE /\ fibers' = [fibers EXCEPT ![id] = RunnerEnd(@, "open")]
            /\ UNCHANGED connections
    /\ UNCHANGED <<loop, server_tasks, server_stop, server_ready, tools_by_server,
                   registered_registry, tool_include_only, registry, callers, calls,
                   pair, bridgeVars, plannerVars,
                   expVars>>

\* a mutant of RunnerProject: tools are registered whether or not a registry
\* is bound
RunnerProjectAlways(bound, reg, server_tools) == RegisterAll(reg, server_tools)

\* mcp_manager.py:137-140  project the new tools into the bound registry
RunnerProject(bound, reg, server_tools) ==
    IF bound # "None" THEN RegisterAll(reg, server_tools) ELSE reg

\* mcp_manager.py:132-145  list_tools returns, or raises; _build_tools builds
\* the tools, or raises on a malformed descriptor; then the tools are
\* projected, the ready event is set and the fiber waits for its stop event
\* (Event.wait() returns at once when the event is already set)
RunnerList(id, outcome, tools_info) ==
    /\ id \in 1..Len(fibers)
    /\ fibers[id].pc = "listing"
    /\ LET name == fibers[id].name
           server_tools == BuildTools(tool_include_only, name, id, tools_info, loop)
       IN  IF outcome \in {"list", "build"}
           THEN /\ fibers' = [fibers EXCEPT ![id] = RunnerUnwind(@, outcome)]
                /\ UNCHANGED <<tools_by_server, registry>>
           ELSE /\ tools_by_server' = Put(tools_by_server, name, server_tools)
                /\ registry' = RunnerProject(registered_registry, registry, server_tools)
                /\ fibers' = [fibers EXCEPT ![id].ready = TRUE,
                                 ![id].pc = IF fibers[id].stop THEN "closing" ELSE "waiting"]
    /\ UNCHANGED <<loop, server_tasks, server_stop, server_ready, connections,
                   registered_registry, tool_include_only, callers, calls, pair, bridgeVars, plannerVars,
                   expVars>>

\* mcp_manager.py:145  stop_evt.wait() returns: the async with is left
RunnerStop(id) ==
    /\ id \in 1..Len(fibers)
    /\ fibers[id].pc = "waiting"
    /\ fibers[id].stop
    /\ ~AddServerPending(id)
    /\ fibers' = [fibers EXCEPT ![id].pc = "closing"]
    /\ UNCHANGED <<mgrVars, registry, callers, calls, pair, bridgeVars, plannerVars,
                   expVars>>

\* mcp_manager.py:128,147-155  __aexit__ releases the transport, and may
\* itself raise; then the task ends
RunnerClose(id, raises) ==
    /\ id \in 1..Len(fibers)
    /\ fibers[id].pc = "closing"
    /\ ~AddServerPending(id)
    /\ fibers' = [fibers EXCEPT ![id] =
           RunnerEnd([@ EXCEPT !.conn = "closed"], IF raises THEN "close" ELSE @.exc)]
    /\ UNCHANGED <<mgrVars, registry, callers, calls, pair, bridgeVars, plannerVars,
                   expVars>>

\* asyncio: the runner task is cancelled while it is suspended.  A task that
\* has not started ends at once; otherwise CancelledError is thrown into the
\* await and unwinds the async with.
RunnerCancel(id) ==
    /\ id \in 1..Len(fibers)
    /\ fibers[id].pc \in {"new", "listing", "waiting"}
    /\ ~AddServerPending(id)
    /\ calls < MaxCalls
    /\ calls' = calls + 1
    /\ fibers' = [fibers EXCEPT ![id] =
           IF @.pc = "new" THEN RunnerEnd(@, "cancelled")
           ELSE RunnerUnwind(@, "cancelled")]
    /\ UNCHANGED <<mgrVars, registry, callers, pair, bridgeVars, plannerVars,
                   expVars>>

(***************************************************************************)
(* Specification of Part I.                                                *)
(***************************************************************************)
\* no plan is being normalized and no planner run has started
PlannerIdle ==
    /\ n_pc = "idle" /\ n_max = 0
    /\ n_raw = EmptyDict /\ n_once = EmptyDict /\ n_twice = EmptyDict /\ n_valid = EmptyDict
    /\ p_pc = "idle" /\ p_cfg = EmptyDict /\ p_task = ""
    /\ p_file = [kind |-> "absent"] /\ p_tmp = [kind |-> "absent"] /\ p_state = EmptyDict
    /\ p_idx = 0 /\ p_save = "none" /\ p_result = EmptyDict /\ p_runs = 0
    /\ p_log = EmptyDict /\ p_foreign = FALSE /\ p_eof = FALSE

\* no calculation, no path resolution and no skill evolution has started
CalcIdle ==
    /\ r_pc = "idle" /\ r_cfg = EmptyDict /\ r_job = 0 /\ r_retries = 0
    /\ r_result = EmptyDict /\ r_log = EmptyDict

AdaptIdle ==
    /\ a_pc = "idle" /\ a_in = EmptyDict /\ a_out = EmptyDict /\ a_again = EmptyDict
    /\ a_uploads = <<>>

EvoIdle ==
    /\ e_pc = "idle" /\ e_fs = {} /\ e_registry = "None" /\ e_result = EmptyDict
    /\ e_runs = 0 /\ e_log = EmptyDict

\* no playground has been constructed
PgIdle ==
    /\ g_pc = "idle" /\ g_cfg = EmptyDict /\ g_mcp_manager = "unset" /\ g_mcp_loop = "None"
    /\ g_session = "None" /\ g_exc = "none" /\ g_result = EmptyDict /\ g_runs = 0
    /\ g_log = EmptyDict

BridgeIdle ==
    /\ mcp_loop = "running"
    /\ clock = 0
    /\ invocations = <<>>
    /\ caller_pc = "idle"

\* mcp_manager.py:50-79  __init__; the playground sets tool_include_only
\* before any server is added (mat_master/core/playground.py:349-355)
ManagerInit ==
    /\ loop = "None"
    /\ server_tasks = EmptyDict
    /\ server_stop = EmptyDict
    /\ server_ready = EmptyDict
    /\ connections = EmptyDict
    /\ tools_by_server = EmptyDict
    /\ registered_registry = "None"
    /\ tool_include_only = IncludeOnly
    /\ registry = [q \in {"finish"} |-> BuiltinTool]
    /\ fibers = <<>>
    /\ callers = [c \in Callers |-> Idle("none")]
    /\ calls = 0
    /\ pair = NoPair

Init == ManagerInit /\ BridgeIdle /\ PlannerIdle /\ CalcIdle /\ AdaptIdle /\ EvoIdle /\ PgIdle

Next ==
    \/ SetLoop
    \/ \E last \in ServerNames \cup {""} : RegisterTools(last)
    \/ \E c \in Callers, n \in ServerNames, onloop \in BOOLEAN : AddServer(c, n, onloop)
    \/ \E c \in Callers : AddServerResume(c)
    \/ \E c \in Callers, n \in ServerNames, onloop \in BOOLEAN : RemoveServer(c, n, onloop)
    \/ \E c \in Callers : RemoveServerResume(c)
    \/ \E c \in Callers, n \in ServerNames, onloop \in BOOLEAN : ReloadServer(c, n, onloop)
    \/ \E c \in Callers, raises \in BOOLEAN, t \in ToolLists : ReloadServerListed(c, raises, t)
    \/ \E c \in Callers, onloop \in BOOLEAN : Cleanup(c, onloop)
    \/ \E id \in 1..MaxCalls, ok \in BOOLEAN : RunnerOpen(id, ok)
    \/ \E id \in 1..MaxCalls, outcome \in {"ok", "list", "build"}, t \in ToolLists :
           RunnerList(id, outcome, t)
    \/ \E id \in 1..MaxCalls : RunnerStop(id)
    \/ \E id \in 1..MaxCalls, raises \in BOOLEAN : RunnerClose(id, raises)
    \/ \E id \in 1..MaxCalls : RunnerCancel(id)

Spec == Init /\ [][Next]_vars

(***************************************************************************)
(* Part II.  MCPTool._call_mcp_tool_sync (mcp.py:148-178): one synchronous *)
(* caller, the injected loop, and the call_tool coroutines on it.          *)
(*   invocation: mode  "none" (no coroutine made), "inline"                *)
(*                     (run_until_complete) or "threadsafe"                *)
(*                     (run_coroutine_threadsafe + fut.result(timeout))    *)
(*               coro  "none", "pending", "done", "failed", "cancelled"    *)
(*               rank  position of the coroutine among the completed ones  *)
(*               caller "blocked", "result", "error", "timeout"            *)
(***************************************************************************)
\* mcp.py:173  fut.result(timeout=60)
Timeout == 60

NoDeadline == Timeout + MaxOverrun + 1

\* a mutant of WaitDeadline: fut.result() is called without a timeout
WaitDeadlineNone(mode) == NoDeadline

\* mcp.py:168-173  the deadline of the caller's wait: run_until_complete has
\* none, fut.result(timeout=60) has 60 seconds
WaitDeadline(mode) == IF mode = "threadsafe" THEN Timeout ELSE NoDeadline

Current == invocations[Len(invocations)]

Completed(inv) == inv.coro \in {"done", "failed"}

NumCompleted == Cardinality({i \in 1..Len(invocations) : Completed(invocations[i])})

\* the loop runs its tasks: on its worker thread, or inside the caller's
\* run_until_complete
LoopExecuting ==
    \/ mcp_loop = "running"
    \/ caller_pc = "blocked" /\ Current.mode = "inline"

\* mcp.py:155-173  the caller enters _call_mcp_tool_sync
CallMcpToolSync ==
    /\ caller_pc = "idle"
    /\ Len(invocations) < MaxInvocations
    /\ clock' = 0
    /\ IF mcp_loop \in {"None", "closed"}
       THEN \* 156-162: ToolError before the coroutine is made
            /\ invocations' = Append(invocations,
                   [mode |-> "none", coro |-> "none", rank |-> 0, caller |-> "error"])
            /\ caller_pc' = "idle"
       ELSE /\ invocations' = Append(invocations,
                   [mode |-> IF mcp_loop = "running" THEN "threadsafe" ELSE "inline",
                    coro |-> "pending", rank |-> 0, caller |-> "blocked"])
            /\ caller_pc' = "blocked"
    /\ UNCHANGED <<mgrVars, loopVars, plannerVars, expVars, mcp_loop>>

\* a second passes while the caller waits; the wait does not outlast its
\* deadline
Tick ==
    /\ caller_pc = "blocked"
    /\ clock < WaitDeadline(Current.mode)
    /\ clock < Timeout + MaxOverrun
    /\ clock' = clock + 1
    /\ UNCHANGED <<mgrVars, loopVars, plannerVars, expVars, mcp_loop, invocations, caller_pc>>

\* the call_tool coroutine of invocation i returns or raises on the loop
CoroutineCompletes(i, raises) ==
    /\ i \in 1..Len(invocations)
    /\ invocations[i].coro = "pending"
    /\ LoopExecuting
    /\ invocations' = [invocations EXCEPT
           ![i].coro = IF raises THEN "failed" ELSE "done",
           ![i].rank = NumCompleted + 1]
    /\ UNCHANGED <<mgrVars, loopVars, plannerVars, expVars, mcp_loop, clock, caller_pc>>

\* a mutant of CallerMayReturn: the caller does not wait for the coroutine
CallerMayReturnAlways(inv) == TRUE

\* mcp.py:169,173  run_until_complete / fut.result return once the coroutine
\* has completed
CallerMayReturn(inv) == Completed(inv)

\* mcp.py:169,173,177-178  the caller gets the result, or the ToolError that
\* wraps the coroutine's exception
CallerReturns ==
    /\ caller_pc = "blocked"
    /\ CallerMayReturn(Current)
    /\ invocations' = [invocations EXCEPT ![Len(invocations)].caller =
           IF Current.coro = "done" THEN "result" ELSE "error"]
    /\ caller_pc' = "idle"
    /\ UNCHANGED <<mgrVars, loopVars, plannerVars, expVars, mcp_loop, clock>>

\* a mutant of TimedOut: the timeout handler cancels the future
TimedOutCancels(inv) == [inv EXCEPT !.caller = "timeout", !.coro = "cancelled"]

\* mcp.py:175-176  the timeout is turned into a ToolError; the future is left
\* alone
TimedOut(inv) == [inv EXCEPT !.caller = "timeout"]

\* mcp.py:173-176  fut.result(timeout=60) raises TimeoutError
CallerTimesOut ==
    /\ caller_pc = "blocked"
    /\ Current.mode = "threadsafe"
    /\ ~Completed(Current)
    /\ clock = Timeout
    /\ invocations' = [invocations EXCEPT ![Len(invocations)] = TimedOut(@)]
    /\ caller_pc' = "idle"
    /\ UNCHANGED <<mgrVars, loopVars, plannerVars, expVars, mcp_loop, clock>>

\* core/playground.py:746-747  the loop's worker thread stops the loop
StopLoop ==
    /\ mcp_loop = "running"
    /\ mcp_loop' = "stopped"
    /\ UNCHANGED <<mgrVars, loopVars, plannerVars, expVars, clock, invocations, caller_pc>>

BridgeInit ==
    /\ ManagerInit
    /\ PlannerIdle /\ CalcIdle /\ AdaptIdle /\ EvoIdle /\ PgIdle
    /\ mcp_loop \in {"None", "closed", "stopped", "running"}
    /\ clock = 0
    /\ invocations = <<>>
    /\ caller_pc = "idle"

BridgeNext ==
    \/ CallMcpToolSync
    \/ Tick
    \/ \E i \in 1..MaxInvocations, raises \in BOOLEAN : CoroutineCompletes(i, raises)
    \/ CallerReturns
    \/ CallerTimesOut
    \/ StopLoop

BridgeSpec == BridgeInit /\ [][BridgeNext]_vars

C4_TimeoutDoesNotCancel ==
    \A i \in 1..Len(invocations) :
        invocations[i].caller = "timeout" =>
            /\ invocations[i].coro \in {"pending", "done", "failed"}
            /\ (invocations[i].coro = "pending" /\ LoopExecuting) =>
                   ENABLED CoroutineCompletes(i, FALSE)

\* the coroutine of a timed-out invocation has run to completion
C4_Witness ==
    \E i \in 1..Len(invocations) :
        invocations[i].caller = "timeout" /\ invocations[i].coro = "done"

\* C5 (as stated): the coroutine of a later invocation never completes before
\* the coroutine of an earlier one, timed-out invocations included.
C5_CompletionInSubmissionOrder ==
    \A i, j \in 1..Len(invocations) :
        (i < j /\ invocations[i].coro # "none" /\ Completed(invocations[j])) =>
            (Completed(invocations[i]) /\ invocations[i].rank < invocations[j].rank)

\* C5 (amended): the coroutine of a later invocation never completes before
\* the coroutine of an earlier one whose caller did not time out.
C5_CompletionInOrderUnlessTimedOut ==
    \A i, j \in 1..Len(invocations) :
        (i < j /\ invocations[i].coro # "none" /\ invocations[i].caller # "timeout"
               /\ Completed(invocations[j])) =>
            (Completed(invocations[i]) /\ invocations[i].rank < invocations[j].rank)

\* two invocations whose coroutines completed one after the other
C5_Witness ==
    /\ Len(invocations) = 2
    /\ invocations[1].caller = "result" /\ invocations[1].rank = 1
    /\ invocations[2].caller = "result" /\ invocations[2].rank = 2

(***************************************************************************)
(* Properties of Part I.                                                   *)
(***************************************************************************)
\* the tools in the registry that were built on the connection of fiber id
ProjectedTools(id) == {q \in DOMAIN registry : registry[q].conn = id}

\* add_server has returned normally for fiber id, which is still the managed
\* server of its name, and no remove_server has begun on it
ReportedReady(id) ==
    /\ fibers[id].pc = "waiting"
    /\ ~fibers[id].stop
    /\ ~AddServerPending(id)
    /\ fibers[id].name \in DOMAIN server_tasks
    /\ server_tasks[fibers[id].name] = id

\* C1 (as stated): while a registry is bound, every tool of a server that
\* add_server reported ready and whose removal has not begun is in the
\* registry (by name), and no tool of a server that is being removed, has
\* been removed or whose fiber failed is in the registry.
C1_RegistryMirrorsReadyServers ==
    registered_registry = "R" =>
        \A id \in 1..Len(fibers) :
            /\ (ReportedReady(id) /\ fibers[id].name \in DOMAIN tools_by_server) =>
                   \A q \in DOMAIN tools_by_server[fibers[id].name] : q \in DOMAIN registry
            /\ (fibers[id].stop \/ fibers[id].pc \in {"done", "failed"}) =>
                   ProjectedTools(id) = {}

\* C2 (as stated): after add_server(X); remove_server(X) by one caller, with
\* nothing else calling in between, the registry holds the names it held
\* before the pair.
C2_AddRemoveRestoresRegistry ==
    pair.stage = "done" => DOMAIN registry = DOMAIN pair.snap

\* C2 (amended): the same, provided the registry held no tool under any of
\* the qualified names of X's tools before the pair.
C2_AddRemoveRestoresRegistryUnlessShadowed ==
    (pair.stage = "done" /\ pair.names \cap DOMAIN pair.snap = {}) =>
        DOMAIN registry = DOMAIN pair.snap

\* a pair that projected tools into the bound registry and took them out
C2_Witness ==
    /\ pair.stage = "done"
    /\ pair.names # {}
    /\ pair.names \cap DOMAIN pair.snap = {}
    /\ registered_registry = "R"

\* C8 (as stated): once remove_server has begun on a server, no tool of it is
\* in the registry while its connection is closed.
C8_UnregisteredBeforeClose ==
    \A id \in 1..Len(fibers) :
        (fibers[id].stop /\ fibers[id].conn = "closed") => ProjectedTools(id) = {}

\* the manager keeps no record under the name
Purged(m, name) ==
    /\ name \notin DOMAIN m.server_tasks
    /\ name \notin DOMAIN m.server_stop
    /\ name \notin DOMAIN m.server_ready
    /\ name \notin DOMAIN m.connections
    /\ name \notin DOMAIN m.tools_by_server

\* C6: when the fiber failed before it signalled ready, add_server raises
\* the error the fiber ended with, the manager keeps no task, signal,
\* connection or tool entry under the name, the registry holds no tool of
\* the fiber, and add_server with the same name is accepted again.
C6_FailedAddIsPurged ==
    [][\A c \in Callers :
          (AddServerResume(c) /\ fibers[callers[c].task].pc = "failed") =>
              /\ callers'[c].result = fibers[callers[c].task].exc
              /\ Purged(M', callers[c].name)
              /\ {q \in DOMAIN registry' : registry'[q].conn = callers[c].task} = {}
              /\ AddServerSync(M', callers[c].name, TRUE, loop').out = "wait"]_vars

\* an add_server has raised the error of list_tools, after the connection
\* had been opened, and the name is free again
C6_Witness ==
    \E c \in Callers, id \in 1..Len(fibers) :
        /\ callers[c].result = "list"
        /\ fibers[id].pc = "failed" /\ fibers[id].exc = "list" /\ fibers[id].conn = "closed"
        /\ fibers[id].name \notin DOMAIN server_tasks

\* C7: add_server for a name that is managed raises the already-exists
\* error and changes nothing of the manager, the registry or the fibers.
C7_DuplicateAddRejected ==
    [][\A c \in Callers, n \in ServerNames, onloop \in BOOLEAN :
          (AddServer(c, n, onloop) /\ n \in DOMAIN server_tasks) =>
              /\ callers'[c].result = "already_exists"
              /\ UNCHANGED <<server_tasks, server_stop, server_ready, connections,
                             tools_by_server, registered_registry, registry, fibers>>]_vars

\* an add_server was rejected while the server of that name was ready
C7_Witness ==
    \E c \in Callers, id \in 1..Len(fibers) :
        /\ callers[c].result = "already_exists"
        /\ ReportedReady(id)

\* C9: a fiber that has ended has no open connection, whatever ended it; a
\* connection is closed only by the __aexit__ of its own fiber; and when
\* remove_server returns normally the connection of the removed server is
\* closed.
C9_ConnectionClosedByItsFiber ==
    /\ [](\A id \in 1..Len(fibers) : TaskDone(fibers[id]) => fibers[id].conn # "open")
    /\ [][\A id \in 1..Len(fibers) :
             (fibers[id].conn = "open" /\ fibers'[id].conn # "open") =>
                 \E raises \in BOOLEAN : RunnerClose(id, raises)]_vars
    /\ [][\A c \in Callers :
             /\ (RemoveServerResume(c) /\ callers'[c].result = "removed") =>
                    fibers'[callers[c].task].conn = "closed"
             /\ \A n \in ServerNames :
                    (RemoveServer(c, n, TRUE) /\ callers'[c].result = "removed") =>
                        fibers'[server_tasks[n]].conn = "closed"]_vars

\* fibers have ended on a failure of list_tools and on a cancellation, each
\* with its connection closed
C9_Witness ==
    \E i, j \in 1..Len(fibers) :
        /\ fibers[i].pc = "failed" /\ fibers[i].exc = "list" /\ fibers[i].conn = "closed"
        /\ fibers[j].pc = "cancelled" /\ fibers[j].conn = "closed"

\* the step in which cleanup returns to caller c
CleanupReturns(c) ==
    /\ \/ Cleanup(c, TRUE)
       \/ RemoveServerResume(c) /\ callers[c].op = "cleanup"
    /\ callers'[c].result \in {"cleanup_complete", "cleanup_incomplete"}

\* the number of fibers that had been made when the cleanup of c was called
CleanupMark(c) == IF callers[c].op = "cleanup" THEN callers[c].mark ELSE Len(fibers)

C30_OffLoopCallChangesNothing ==
    [][\A c \in Callers :
          (calls' = calls + 1 /\ callers'[c] = Idle("RuntimeError")) =>
              UNCHANGED <<server_tasks, server_stop, server_ready, connections,
                          tools_by_server, registered_registry, registry>>]_vars

\* a call has raised RuntimeError and the manager has no stop signal left
\* without a task
C30_Witness ==
    /\ \E c \in Callers : callers[c] = Idle("RuntimeError")
    /\ loop = "L"
    /\ DOMAIN server_stop = DOMAIN server_tasks

\* C31: the qualified names of the tools of two managed servers with
\* different names are different, so no tool of one server takes the place of
\* a tool of another in the registry.
C31_QualifiedNamesDistinct ==
    \A n1 \in DOMAIN tools_by_server, n2 \in DOMAIN tools_by_server :
        n1 # n2 => DOMAIN tools_by_server[n1] \cap DOMAIN tools_by_server[n2] = {}

\* two servers are managed, each with a tool, and a registry is bound
C31_Witness ==
    /\ registered_registry = "R"
    /\ \E n1 \in DOMAIN tools_by_server, n2 \in DOMAIN tools_by_server :
           /\ n1 # n2
           /\ tools_by_server[n1] # EmptyDict
           /\ tools_by_server[n2] # EmptyDict

\* the step in which reload_server returns normally to caller c
ReloadReturns(c) ==
    /\ callers[c].pc = "reload_list"
    /\ callers'[c] = Idle("reloaded")

\* C32: when reload_server(X) returns, X is managed as after add_server: it
\* has a supervisor task and an open connection, and each of its tools has
\* its remote name and the loop, so that the tools can be invoked and a later
\* remove_server(X) finds X.
C32_ReloadedServerIsManaged ==
    [][\A c \in Callers :
          ReloadReturns(c) =>
              LET X == callers[c].name
              IN  /\ X \in DOMAIN server_tasks'
                  /\ X \in DOMAIN connections'
                  /\ fibers'[connections'[X]].conn = "open"
                  /\ \A q \in DOMAIN tools_by_server'[X] :
                         /\ tools_by_server'[X][q].remote # "None"
                         /\ tools_by_server'[X][q].loop # "None"]_vars

\* reload_server has returned: its tools are in the bound registry
C32_Witness ==
    /\ \E c \in Callers : callers[c] = Idle("reloaded")
    /\ registered_registry = "R"
    /\ \E q \in DOMAIN registry : registry[q].remote = "None" /\ registry[q].loop = "None"

\* remove_server runs for the server of fiber id while add_server still waits
\* for the fiber, which has not listed its tools
RemoveDuringAdd(id) ==
    /\ id \in 1..Len(fibers)
    /\ fibers[id].pc \in {"new", "listing"}
    /\ \E c \in Callers : callers[c].pc = "add_wait" /\ callers[c].task = id
    /\ \E c \in Callers :
           callers[c].pc = "remove_wait" /\ callers[c].op = "remove" /\ callers[c].task = id

\* the fiber has ended cleanly and no call waits for it any more
BothReturned(id) ==
    /\ id \in 1..Len(fibers)
    /\ fibers[id].pc = "done"
    /\ \A c \in Callers : callers[c].task # id

\* nothing of fiber id is left: no tool in the registry, and no task, signal,
\* connection or tool entry of it in the manager
NothingLeftOf(id) ==
    LET X == fibers[id].name
    IN  /\ ProjectedTools(id) = {}
        /\ X \in DOMAIN server_tasks => server_tasks[X] # id
        /\ X \in DOMAIN server_stop => server_stop[X] # id
        /\ X \in DOMAIN server_ready => server_ready[X] # id
        /\ X \in DOMAIN connections => connections[X] # id
        /\ X \in DOMAIN tools_by_server =>
               \A q \in DOMAIN tools_by_server[X] : tools_by_server[X][q].conn # id

\* the steps the event loop takes by itself: it resumes a coroutine whose
\* await is over and runs a fiber up to its next await.  New API calls and
\* the cancellation of a task come from outside.
LoopSteps ==
    \/ \E c \in Callers : AddServerResume(c)
    \/ \E c \in Callers : RemoveServerResume(c)
    \/ \E c \in Callers, raises \in BOOLEAN, t \in ToolLists : ReloadServerListed(c, raises, t)
    \/ \E id \in 1..MaxCalls, ok \in BOOLEAN : RunnerOpen(id, ok)
    \/ \E id \in 1..MaxCalls, outcome \in {"ok", "list", "build"}, t \in ToolLists :
           RunnerList(id, outcome, t)
    \/ \E id \in 1..MaxCalls : RunnerStop(id)
    \/ \E id \in 1..MaxCalls, raises \in BOOLEAN : RunnerClose(id, raises)

\* the loop runs for as long as something on it can run
ManagerLiveSpec == Spec /\ WF_vars(LoopSteps)

\* C33: when remove_server(X) ran while add_server(X) was waiting for the
\* fiber to become ready, then once both calls have returned no tool of X is
\* in the registry and the manager holds no task, signal, connection or tool
\* entry of X.
C33_RemoveDuringAddLeavesNothing ==
    \A id \in 1..MaxCalls :
        [](RemoveDuringAdd(id) => [](BothReturned(id) => NothingLeftOf(id)))

\* remove_server overtook the fiber of an add_server that is still waiting,
\* with a registry bound
C33_Witness ==
    /\ registered_registry = "R"
    /\ \E id \in 1..Len(fibers) : RemoveDuringAdd(id) /\ fibers[id].stop

\* the step in which remove_server(X), called by c for a server that had
\* been added, resumes from `await task` and raises what the fiber raised
\* while it closed its connection
RemoveRaises(c) ==
    /\ callers[c].pc = "remove_wait"
    /\ callers[c].op = "remove"
    /\ \A d \in Callers : callers[d].pc = "add_wait" => callers[d].task # callers[c].task
    /\ fibers[callers[c].task].exc = "close"
    /\ callers'[c] = Idle("close")

\* C34: when remove_server(X) raises because the fiber raised while it
\* unwound after the stop signal, the manager keeps no record of X: X is not
\* managed any more, so add_server(X) is accepted and cleanup has nothing to
\* remove for X.
C34_FailedRemoveStillPurges ==
    [][\A c \in Callers :
          RemoveRaises(c) =>
              LET X == callers[c].name
                  id == callers[c].task
              IN  /\ X \in DOMAIN server_tasks' => server_tasks'[X] # id
                  /\ X \in DOMAIN server_stop' => server_stop'[X] # id
                  /\ X \in DOMAIN server_ready' => server_ready'[X] # id
                  /\ X \in DOMAIN connections' => connections'[X] # id]_vars

\* remove_server has raised the error of the close, and the server is still
\* the managed server of its name
C34_Witness ==
    \E c \in Callers, n \in DOMAIN server_tasks :
        /\ callers[c] = Idle("close")
        /\ fibers[server_tasks[n]].pc = "failed"
        /\ fibers[server_tasks[n]].exc = "close"
        /\ fibers[server_tasks[n]].stop

\* C35: a fiber that has ended has set its ready event, whatever ended it, so
\* that the add_server that waits for it goes on.
C35_EndedFiberHasSignalledReady ==
    \A c \in Callers :
        (callers[c].pc = "add_wait" /\ TaskDone(fibers[callers[c].task])) =>
            fibers[callers[c].task].ready

\* add_server waits for a fiber that was cancelled before it had listed its
\* tools
C35_Witness ==
    \E c \in Callers :
        /\ callers[c].pc = "add_wait"
        /\ fibers[callers[c].task].pc = "cancelled"

(***************************************************************************)
(* Part III.  Plan normalization and the protocol watchdog                *)
(* (playground/mat_master/core/solvers/research_planner.py).               *)
(*   A dict is a function from its keys; dict.get(k, default) is Get.     *)
(*   tool_name and intent are sequences of characters, so that lower()     *)
(*   and the substring test are computed; the other texts are strings.     *)
(***************************************************************************)
\* the number of steps of the longest plan a reply holds
MaxPlanLen == 2

\* dict.get(k, default)
Get(d, k, default) == IF k \in DOMAIN d THEN d[k] ELSE default

\* step.get("step_id") of a step without one
NoneId == -1

\* a or b, for strings: "" is falsy
OrStr(a, b) == IF a = "" THEN b ELSE a

\* a or b, for lists and for texts kept as sequences of characters: the
\* empty one is falsy
OrSeq(a, b) == IF a = <<>> THEN b ELSE a

UpperCase == <<"A", "B", "C", "D", "E", "F", "G", "H", "I", "J", "K", "L", "M",
               "N", "O", "P", "Q", "R", "S", "T", "U", "V", "W", "X", "Y", "Z">>

LowerCase == <<"a", "b", "c", "d", "e", "f", "g", "h", "i", "j", "k", "l", "m",
               "n", "o", "p", "q", "r", "s", "t", "u", "v", "w", "x", "y", "z">>

\* a mutant of LowerChar: the comparison is case-sensitive
LowerCharIdentity(c) == c

\* str.lower() on one character
LowerChar(c) ==
    IF \E i \in 1..Len(UpperCase) : UpperCase[i] = c
    THEN LowerCase[CHOOSE i \in 1..Len(UpperCase) : UpperCase[i] = c]
    ELSE c

\* str.lower()
Lower(text) == [i \in 1..Len(text) |-> LowerChar(text[i])]

\* sub in text
Contains(text, sub) ==
    \E i \in 0..(Len(text) - Len(sub)) : SubSeq(text, i + 1, i + Len(sub)) = sub

\* the identifiers of research_planner.py:25 and the texts of the replies, as
\* sequences of characters
VASP == <<"V", "A", "S", "P">>

GAUSSIAN == <<"G", "a", "u", "s", "s", "i", "a", "n">>

CASTEP == <<"C", "A", "S", "T", "E", "P">>

WIEN2K == <<"W", "i", "e", "n", "2", "k">>

T_mat_abacus == <<"m", "a", "t", "_", "a", "b", "a", "c", "u", "s">>

T_run_vasp == <<"r", "u", "n", "_", "v", "a", "s", "p">>

T_relax == <<"r", "e", "l", "a", "x">>

T_use_Gaussian == <<"u", "s", "e", " ", "G", "a", "u", "s", "s", "i", "a", "n">>

T_castep == <<"c", "a", "s", "t", "e", "p">>

T_fit_gaussians == <<"f", "i", "t", " ", "g", "a", "u", "s", "s", "i", "a", "n", "s">>

\* research_planner.py:25  Block_List
Block_List == <<VASP, GAUSSIAN, CASTEP, WIEN2K>>

\* research_planner.py:29-30  Preferred_DFT, Preferred_MLP
Preferred == {"ABACUS", "DPA"}

\* a mutant of Upper: the cost is compared as it was written
UpperIdentity(s) == s

\* str.upper() of the cost texts a reply may carry
Upper(s) ==
    CASE s \in {"low", "Low", "LOW"} -> "LOW"
      [] s \in {"high", "High", "HIGH"} -> "HIGH"
      [] s \in {"medium", "Medium", "MEDIUM"} -> "MEDIUM"
      [] OTHER -> s

\* a mutant of NormalizeStep: only the external field names are read
NormalizeStepExternalOnly(step) ==
    [step_id |-> Get(step, "step_id", NoneId),
     tool_name |-> Get(step, "tool_name", <<>>),
     intent |-> Get(step, "scientific_intent", <<>>),
     compute_cost |->
         LET intensity == Upper(OrStr(Get(step, "compute_intensity", ""), "MEDIUM"))
         IN  IF intensity = "LOW" THEN "Low"
             ELSE IF intensity = "HIGH" THEN "High" ELSE "Medium",
     requires_human_confirm |-> Get(step, "requires_confirmation", FALSE),
     fallback_logic |-> OrStr(Get(step, "fallback_strategy", ""), "None"),
     status |-> Get(step, "status", "pending")]

\* research_planner.py:55-72  _normalize_step
NormalizeStep(step) ==
    [step_id |-> Get(step, "step_id", NoneId),
     tool_name |-> Get(step, "tool_name", <<>>),
     intent |-> OrSeq(Get(step, "scientific_intent", <<>>), Get(step, "intent", <<>>)),
     compute_cost |->
         LET intensity == Upper(OrStr(OrStr(Get(step, "compute_intensity", ""),
                                            Get(step, "compute_cost", "")), "MEDIUM"))
         IN  IF intensity = "LOW" THEN "Low"
             ELSE IF intensity = "HIGH" THEN "High" ELSE "Medium",
     requires_human_confirm |->
         Get(step, "requires_confirmation", Get(step, "requires_human_confirm", FALSE)),
     fallback_logic |->
         OrStr(Get(step, "fallback_strategy", ""), Get(step, "fallback_logic", "None")),
     status |-> Get(step, "status", "pending")]

\* list[:max_steps]
Prefix(list, max_steps) == SubSeq(list, 1, IF Len(list) < max_steps THEN Len(list) ELSE max_steps)

\* research_planner.py:75-81  _normalize_plan (the dict is changed in place:
\* every other key, execution_graph included, is kept)
NormalizePlan(plan, max_steps) ==
    LET graph == OrSeq(Get(plan, "execution_graph", <<>>), Get(plan, "steps", <<>>))
        steps == Prefix([i \in 1..Len(graph) |-> NormalizeStep(graph[i])], max_steps)
    IN  Put(plan, "steps", steps)

\* a mutant of StepText: the intent is not looked at
StepTextToolOnly(step) == Lower(Get(step, "tool_name", <<>>))

\* research_planner.py:233  (tool_name + " " + intent).lower()
StepText(step) == Lower(Get(step, "tool_name", <<>>) \o <<" ">> \o Get(step, "intent", <<>>))

\* a mutant of Mentions: any text at all is taken for a mention
MentionsAnything(step, j) == StepText(step) # <<" ">>

\* research_planner.py:234-235  the step mentions the j-th identifier of the list
Mentions(step, j) == Contains(StepText(step), Lower(Block_List[j]))

\* the step mentions some identifier of the list
Blocked(step) == \E j \in 1..Len(Block_List) : Mentions(step, j)

\* research_planner.py:236-241  the refusal_reason the watchdog writes
CrpReason(step, j) ==
    [text |-> "CRP violation", sw |-> Block_List[j], step |-> Get(step, "step_id", NoneId),
     use |-> Preferred]

\* research_planner.py:227-245  _validate_plan_safety: the first step, and
\* for it the first identifier, decide
ValidatePlanSafety(plan) ==
    LET steps == Get(plan, "steps", <<>>)
        hit == {i \in 1..Len(steps) : Blocked(steps[i])}
    IN  IF Get(plan, "status", "None") = "REFUSED" THEN plan
        ELSE IF hit = {} THEN plan
        ELSE LET i == CHOOSE i \in hit : \A k \in hit : i <= k
                 j == CHOOSE j \in 1..Len(Block_List) :
                          /\ Mentions(steps[i], j)
                          /\ \A k \in 1..(j - 1) : ~Mentions(steps[i], k)
             IN  [plan_id |-> Get(plan, "plan_id", "None"),
                  status |-> "REFUSED",
                  refusal_reason |-> CrpReason(steps[i], j),
                  strategy_name |-> Get(plan, "strategy_name", "None"),
                  steps |-> steps]

\* research_planner.py:270, 298  the reason given to a plan without steps
ZeroStepsReason == [text |-> "Plan must have at least one step.", use |-> {}]

\* research_planner.py:268-270, 296-298  a plan without steps is refused
RefuseIfEmpty(plan) ==
    IF Get(plan, "steps", <<>>) = <<>>
    THEN Put(Put(plan, "status", "REFUSED"), "refusal_reason",
             Get(plan, "refusal_reason", ZeroStepsReason))
    ELSE plan

\* research_planner.py:267-271, 295-299  a parsed reply is normalized, refused
\* when it has no step, and handed to the watchdog
Pipeline(plan, max_steps) == ValidatePlanSafety(RefuseIfEmpty(NormalizePlan(plan, max_steps)))

(***************************************************************************)
(* Specification of Part III: a parsed reply is normalized, normalized     *)
(* again, and validated.                                                   *)
(***************************************************************************)
\* the steps a reply may hold: every combination of the ways a field can be
\* given (internal name, external name, both, neither)
RawSteps ==
    { [step_id |-> 1] @@ tool @@ intent @@ cost @@ confirm @@ fallback @@ status :
        tool \in {[tool_name |-> T_mat_abacus], [tool_name |-> T_run_vasp]},
        intent \in {EmptyDict, [intent |-> T_relax], [scientific_intent |-> T_use_Gaussian],
                    [scientific_intent |-> <<>>, intent |-> T_castep],
                    [intent |-> T_fit_gaussians]},
        cost \in {EmptyDict, [compute_cost |-> "Low"], [compute_intensity |-> "high"],
                  [compute_intensity |-> "", compute_cost |-> "High"]},
        confirm \in {EmptyDict, [requires_confirmation |-> TRUE],
                     [requires_confirmation |-> FALSE, requires_human_confirm |-> TRUE]},
        fallback \in {EmptyDict, [fallback_strategy |-> "retry"], [fallback_logic |-> ""]},
        status \in {EmptyDict, [status |-> "done"]} }

\* the steps the longer plans are made of
FewSteps ==
    { [step_id |-> 1, tool_name |-> T_mat_abacus, scientific_intent |-> T_relax,
       compute_intensity |-> "LOW"],
      [step_id |-> 2, tool_name |-> T_mat_abacus, intent |-> T_castep, compute_cost |-> "High",
       status |-> "pending"] }

\* lists of exactly n steps of FewSteps
ListsOf(n) == [1..n -> FewSteps]

RawGraphs ==
    {<<>>} \cup {<<s>> : s \in RawSteps} \cup UNION {ListsOf(n) : n \in 2..MaxPlanLen}

\* the refusal_reason of a plan the planner refused itself
LmReason == [text |-> "no licensed tool fits", use |-> {}]

\* the parsed replies: the graph under either key, or under both
RawPlans ==
    { graph @@ status :
        graph \in {[steps |-> g] : g \in RawGraphs}
                  \cup {[execution_graph |-> g] : g \in RawGraphs}
                  \cup {[execution_graph |-> <<>>, steps |-> g] : g \in RawGraphs},
        status \in {EmptyDict, [status |-> "APPROVED"],
                    [status |-> "REFUSED", refusal_reason |-> LmReason]} }

NormalizeInit ==
    /\ ManagerInit /\ BridgeIdle /\ CalcIdle /\ AdaptIdle /\ EvoIdle /\ PgIdle
    /\ n_pc = "raw"
    /\ n_max \in 0..MaxPlanLen
    /\ n_raw \in RawPlans
    /\ n_once = EmptyDict /\ n_twice = EmptyDict /\ n_valid = EmptyDict
    /\ p_pc = "idle" /\ p_cfg = EmptyDict /\ p_task = ""
    /\ p_file = [kind |-> "absent"] /\ p_tmp = [kind |-> "absent"] /\ p_state = EmptyDict
    /\ p_idx = 0 /\ p_save = "none" /\ p_result = EmptyDict /\ p_runs = 0
    /\ p_log = EmptyDict /\ p_foreign = FALSE /\ p_eof = FALSE

\* research_planner.py:267  plan = _normalize_plan(plan, self.max_steps)
NormalizeOnce ==
    /\ n_pc = "raw"
    /\ n_once' = NormalizePlan(n_raw, n_max)
    /\ n_pc' = "normalized"
    /\ UNCHANGED <<mgrVars, loopVars, bridgeVars, expVars, runVars, n_max, n_raw, n_twice, n_valid>>

\* _normalize_plan applied to its own result
NormalizeAgain ==
    /\ n_pc = "normalized"
    /\ n_twice' = NormalizePlan(n_once, n_max)
    /\ n_pc' = "renormalized"
    /\ UNCHANGED <<mgrVars, loopVars, bridgeVars, expVars, runVars, n_max, n_raw, n_once, n_valid>>

\* research_planner.py:271  self._validate_plan_safety(plan)
Validate ==
    /\ n_pc = "renormalized"
    /\ n_valid' = ValidatePlanSafety(n_once)
    /\ n_pc' = "validated"
    /\ UNCHANGED <<mgrVars, loopVars, bridgeVars, expVars, runVars, n_max, n_raw, n_once, n_twice>>

NormalizeNext == NormalizeOnce \/ NormalizeAgain \/ Validate

NormalizeSpec == NormalizeInit /\ [][NormalizeNext]_vars

(***************************************************************************)
(* Properties of Part III.                                                 *)
(***************************************************************************)
\* two characters are the same letter, in whatever case
SameLetter(a, b) ==
    a = b \/ \E n \in 1..Len(UpperCase) : {a, b} = {UpperCase[n], LowerCase[n]}

\* the text contains the identifier, whatever the case of the letters
ContainsIgnoringCase(text, id) ==
    \E i \in 0..(Len(text) - Len(id)) : \A k \in 1..Len(id) : SameLetter(text[i + k], id[k])

\* the tool_name or the intent of the step contains a block-listed identifier
NamesBlockListed(step) ==
    \E j \in 1..Len(Block_List) :
        \/ ContainsIgnoringCase(step.tool_name, Block_List[j])
        \/ ContainsIgnoringCase(step.intent, Block_List[j])

\* some step of the normalized plan does
HasBlockedStep(plan) ==
    \E i \in 1..Len(Get(plan, "steps", <<>>)) : NamesBlockListed(plan["steps"][i])

C22_NormalizedStepsPending ==
    n_pc # "raw" =>
        \A i \in 1..Len(n_once["steps"]) : n_once["steps"][i].status = "pending"

\* a reply whose step carries no status was normalized
C22_Witness ==
    /\ n_pc = "normalized"
    /\ n_once["steps"] # <<>>
    /\ "status" \notin DOMAIN n_raw["steps"][1]
    /\ n_once["steps"][1].status = "pending"

\* a character that belongs to a word: a letter or a digit
IsWordChar(c) ==
    \/ \E n \in 1..Len(UpperCase) : c \in {UpperCase[n], LowerCase[n]}
    \/ c \in {"0", "1", "2", "3", "4", "5", "6", "7", "8", "9"}

\* the text contains the identifier as a whole word, whatever the case of
\* the letters: the characters next to the occurrence belong to no word
ContainsWord(text, id) ==
    \E i \in 0..(Len(text) - Len(id)) :
        /\ \A k \in 1..Len(id) : SameLetter(text[i + k], id[k])
        /\ i > 0 => ~IsWordChar(text[i])
        /\ i + Len(id) < Len(text) => ~IsWordChar(text[i + Len(id) + 1])

\* some step of the plan has a block-listed identifier as a whole word in its
\* tool_name or intent
HasBlockedWord(plan) ==
    \E i \in 1..Len(Get(plan, "steps", <<>>)), j \in 1..Len(Block_List) :
        \/ ContainsWord(plan["steps"][i].tool_name, Block_List[j])
        \/ ContainsWord(plan["steps"][i].intent, Block_List[j])

\* C29, as claimed: a plan in which no step has a block-listed identifier as
\* a whole word in its tool_name or intent is returned unchanged by
\* validation, and validating the result again changes nothing.
C29_UnchangedUnlessWholeWord ==
    n_pc = "validated" =>
        /\ ~HasBlockedWord(n_once) => n_valid = n_once
        /\ ValidatePlanSafety(n_valid) = n_valid

\* C29, amended: the same for a plan in which no step has a block-listed
\* identifier anywhere in its tool_name or intent, inside a longer word
\* included.
C29_UnchangedUnlessMentioned ==
    n_pc = "validated" =>
        /\ ~HasBlockedStep(n_once) => n_valid = n_once
        /\ ValidatePlanSafety(n_valid) = n_valid

\* an approved plan with steps, none of which names an identifier, was
\* validated
C29_Witness ==
    /\ n_pc = "validated"
    /\ Get(n_once, "status", "None") # "REFUSED"
    /\ Get(n_once, "steps", <<>>) # <<>>
    /\ ~HasBlockedStep(n_once)
    /\ n_valid = n_once

(***************************************************************************)
(* Part IV.  ResearchPlanner.run (research_planner.py:305-379) with        *)
(* _load_state, _save_state, _generate_plan and _revise_plan.  The run     *)
(* takes one step between two points where it waits (for the human, for    *)
(* DirectSolver) or where the process may crash (inside _save_state).      *)
(*   p_pc: "idle", "gate" (line 334), "revised" (lines 345-346), "loop"    *)
(*         (line 354), "confirm" (line 362), "solving" (line 371),         *)
(*         "returned", "crashed"                                           *)
(***************************************************************************)
\* number of times run is started on the same run directory
MaxRuns == 2
\* number of revisions the human asks for at the gate of one run
MaxRevisions == 1

Tasks == {"g1", "g2"}

\* replies of the language model that carry a plan
ReplyPlan ==
    [status |-> "APPROVED", strategy_name |-> "relax then md",
     execution_graph |->
        <<[step_id |-> 1, tool_name |-> T_mat_abacus, scientific_intent |-> T_relax,
           compute_intensity |-> "LOW"],
          [step_id |-> 2, tool_name |-> T_mat_abacus, scientific_intent |-> T_relax,
           compute_intensity |-> "HIGH"]>>]

ReplyConfirm ==
    [status |-> "APPROVED", strategy_name |-> "md",
     execution_graph |->
        <<[step_id |-> 1, tool_name |-> T_mat_abacus, scientific_intent |-> T_relax,
           compute_intensity |-> "LOW", requires_confirmation |-> TRUE]>>]

ReplyBlocked ==
    [status |-> "APPROVED", strategy_name |-> "dft",
     execution_graph |->
        <<[step_id |-> 1, tool_name |-> T_run_vasp, scientific_intent |-> T_relax,
           compute_intensity |-> "LOW"]>>]

ReplyRefused ==
    [status |-> "REFUSED", refusal_reason |-> LmReason, strategy_name |-> "none",
     execution_graph |->
        <<[step_id |-> 1, tool_name |-> T_mat_abacus, scientific_intent |-> T_relax,
           compute_intensity |-> "LOW"]>>]

ReplyEmpty == [status |-> "APPROVED", strategy_name |-> "none", execution_graph |-> <<>>]

\* what llm.query and json.loads give: a parsed plan, a reply without JSON,
\* a reply whose JSON does not parse, or an exception of the query
Replies ==
    {ReplyPlan, ReplyConfirm, ReplyBlocked, ReplyRefused, ReplyEmpty}
        \cup {[failure |-> f] : f \in {"nojson", "badjson", "error"}}

\* research_planner.py:259, 263, 266 (287, 291, 294)  the reasons of a reply
\* that gave no plan
FailureReason(reply) ==
    [text |-> CASE reply.failure = "nojson" -> "output contained no valid JSON."
                [] reply.failure = "badjson" -> "Invalid JSON"
                [] OTHER -> "str(e)",
     use |-> {}]

\* a file that is not there, a file whose JSON text is incomplete, and a
\* file that holds the whole JSON text of a state
Absent == [kind |-> "absent"]

Partial == [kind |-> "partial"]

Complete(state) == [kind |-> "state", content |-> state]

\* research_planner.py:165  the state of a run directory without a state file
NonePlan == [isNone |-> TRUE]

DefaultState == [goal |-> "", plan |-> NonePlan, history |-> <<>>]

\* a mutant of IsDegPlan: no loaded plan is taken for a plan
IsDegPlanNever(plan) == FALSE

\* research_planner.py:47-52  _is_deg_plan
IsDegPlan(plan) ==
    /\ "isNone" \notin DOMAIN plan
    /\ LET steps == OrSeq(Get(plan, "steps", <<>>), Get(plan, "execution_graph", <<>>))
       IN  /\ steps # <<>>
           /\ Get(steps[1], "step_id", NoneId) # NoneId

\* research_planner.py:157-165  _load_state: a file that is not there or does
\* not parse gives the default state
LoadState(file) == IF file.kind = "state" THEN file.content ELSE DefaultState

\* research_planner.py:247-271  _generate_plan
GeneratePlan(reply, max_steps) ==
    IF "failure" \in DOMAIN reply
    THEN [status |-> "REFUSED", refusal_reason |-> FailureReason(reply)]
    ELSE Pipeline(reply, max_steps)

\* research_planner.py:273-299  _revise_plan: a reply that gives no plan
\* leaves the current plan, refused; a plan goes the way of _generate_plan
\* (lines 295-299 are lines 267-271)
RevisePlan(current_plan, generated, failure) ==
    IF failure
    THEN Put(Put(current_plan, "status", "REFUSED"), "refusal_reason",
             generated["refusal_reason"])
    ELSE generated

\* a mutant of IsRefused: the status of the plan is not looked at
IsRefusedNever(plan) == FALSE

\* research_planner.py:319, 346  plan.get("status") == "REFUSED"
IsRefused(plan) == Get(plan, "status", "None") = "REFUSED"

\* a mutant of AfterPlanning: the gate is left out
AfterPlanningNoGate(human_check) == "loop"

\* research_planner.py:325  the gate is entered when human_check is set
AfterPlanning(human_check) == IF human_check THEN "gate" ELSE "loop"

\* a mutant of NeedsConfirm: the cost of the step is not looked at
NeedsConfirmFlagOnly(step) == Get(step, "requires_human_confirm", FALSE)

\* research_planner.py:361
NeedsConfirm(step) ==
    Get(step, "requires_human_confirm", FALSE) \/ Get(step, "compute_cost", "None") = "High"

\* the plan's steps, as the execution loop reads them (line 354)
PlanSteps(state) == Get(state.plan, "steps", <<>>)

\* research_planner.py:372-373  DirectSolver returned
SolverReturned(state, i) ==
    LET step == PlanSteps(state)[i]
    IN  [state EXCEPT
            !.plan = Put(state.plan, "steps",
                         [PlanSteps(state) EXCEPT ![i] = Put(step, "status", "done")]),
            !.history = Append(@, [step |-> Get(step, "step_id", 0),
                                   tool_name |-> Get(step, "tool_name", <<>>),
                                   intent |-> Get(step, "intent", <<>>),
                                   result_summary |-> "str(result)"])]

\* a mutant of SolverRaised: the step is marked done all the same
SolverRaisedMarksDone(state, i) ==
    [SolverReturned(state, i) EXCEPT
        !.history = Append(state.history,
                           [step |-> Get(PlanSteps(state)[i], "step_id", 0), error |-> "str(e)"])]

\* research_planner.py:375-377  DirectSolver raised
SolverRaised(state, i) ==
    [state EXCEPT
        !.history = Append(@, [step |-> Get(PlanSteps(state)[i], "step_id", 0),
                               error |-> "str(e)"])]

\* a mutant of OpenForWrite: the state file itself is opened for writing
OpenForWriteInPlace(file, tmp) == [file |-> Partial, tmp |-> tmp]

\* research_planner.py:169-171  open(tmp, "w") creates or truncates the
\* temp file
OpenForWrite(file, tmp) == [file |-> file, tmp |-> Partial]

\* what the run has done so far (history variable)
\*   origin     how the plan was obtained: "generated", "revised", "loaded"
\*   cause      why generation or revision gave no plan to execute: "none",
\*              "planner", "nojson", "badjson", "error", "zero_steps", "watchdog"
\*   gate       the last answer at the pre-flight gate ("none" before it)
\*   revisions  number of revisions asked for
\*   seen       indexes of the steps the execution loop has reached, in order
\*   yes, no    indexes of the steps confirmed and declined at their prompt
\*   dispatched the steps handed to DirectSolver, with their indexes
\*   raised     indexes of the steps on which DirectSolver raised
\*   processed  number of steps the loop has dealt with (not skipped as done)
\*   done0      indexes of the steps that were done in the plan as loaded
NewLog(origin, cause) ==
    [origin |-> origin, cause |-> cause, gate |-> "none", revisions |-> 0, seen |-> <<>>,
     yes |-> {}, no |-> {}, dispatched |-> <<>>, raised |-> {}, processed |-> 0,
     done0 |-> {}]

\* why a reply gives no plan to execute, told from the reply itself
Cause(reply, max_steps) ==
    IF "failure" \in DOMAIN reply THEN reply.failure
    ELSE IF Get(reply, "status", "None") = "REFUSED" THEN "planner"
    ELSE IF NormalizePlan(reply, max_steps)["steps"] = <<>> THEN "zero_steps"
    ELSE IF HasBlockedStep(NormalizePlan(reply, max_steps)) THEN "watchdog"
    ELSE "none"

\* the values self.max_steps takes
MaxStepsChoices == {1, MaxPlanLen}

\* _generate_plan and the cause, for every reply and max_steps
Generated ==
    [reply \in Replies, max_steps \in MaxStepsChoices |->
        [plan |-> GeneratePlan(reply, max_steps), cause |-> Cause(reply, max_steps)]]

\* research_planner.py:305-325  run, up to the gate or the execution loop
Run(task_description, reply) ==
    /\ p_pc \in {"idle", "returned", "crashed"}
    /\ p_runs < MaxRuns
    /\ p_runs' = p_runs + 1
    /\ p_task' = task_description
    /\ LET loaded == LoadState(p_file)
           state == [loaded EXCEPT !.goal = OrStr(@, task_description)]
           replan == ~IsDegPlan(state.plan) \/ state.goal # task_description
           plan == IF replan THEN Generated[reply, p_cfg.max_steps].plan ELSE state.plan
       IN  /\ p_state' = [state EXCEPT !.plan = plan]
           /\ p_log' = IF replan THEN NewLog("generated", Generated[reply, p_cfg.max_steps].cause)
                       ELSE [NewLog("loaded", "none") EXCEPT
                                !.done0 = {i \in 1..Len(PlanSteps(loaded)) :
                                              Get(PlanSteps(loaded)[i], "status", "None") = "done"}]
           /\ IF IsRefused(plan)
              THEN /\ p_pc' = "returned"
                   /\ p_result' = [status |-> "failed",
                                   reason |-> Get(plan, "refusal_reason", [text |-> "Unknown", use |-> {}])]
              ELSE /\ p_pc' = AfterPlanning(p_cfg.human_check)
                   /\ p_result' = EmptyDict
    /\ p_idx' = 1
    /\ p_eof' = FALSE
    /\ UNCHANGED <<mgrVars, loopVars, bridgeVars, expVars, normVars, p_cfg, p_file, p_tmp, p_save,
                   p_foreign>>

\* research_planner.py:334-345  the human answers at the pre-flight gate
Gate(ans, reply) ==
    /\ p_pc = "gate"
    /\ p_save = "none"
    /\ p_eof => ans = ""
    /\ CASE ans = "go" ->
              /\ p_pc' = "loop"
              /\ p_log' = [p_log EXCEPT !.gate = "go"]
              /\ UNCHANGED <<p_state, p_save, p_result>>
         [] ans = "abort" ->
              /\ p_pc' = "returned"
              /\ p_result' = [status |-> "aborted"]
              /\ p_log' = [p_log EXCEPT !.gate = "abort"]
              /\ UNCHANGED <<p_state, p_save>>
         [] ans = "" ->
              UNCHANGED <<p_pc, p_log, p_state, p_save, p_result>>
         [] OTHER ->
              /\ p_log.revisions < MaxRevisions
              /\ p_state' = [p_state EXCEPT
                                !.plan = RevisePlan(@, Generated[reply, p_cfg.max_steps].plan,
                                                    "failure" \in DOMAIN reply)]
              /\ p_log' = [p_log EXCEPT !.gate = "feedback", !.revisions = @ + 1,
                                        !.origin = "revised",
                                        !.cause = Generated[reply, p_cfg.max_steps].cause]
              /\ p_save' = "open"
              /\ p_pc' = "revised"
              /\ UNCHANGED p_result
    /\ UNCHANGED <<mgrVars, loopVars, bridgeVars, expVars, normVars, p_cfg, p_task, p_file, p_tmp,
                   p_idx, p_runs, p_foreign, p_eof>>

\* research_planner.py:346-348  after the revised plan was saved
RevisionChecked ==
    /\ p_pc = "revised"
    /\ p_save = "none"
    /\ IF IsRefused(p_state.plan)
       THEN /\ p_pc' = "returned"
            /\ p_result' = [status |-> "failed",
                            reason |-> Get(p_state.plan, "refusal_reason",
                                          [text |-> "None", use |-> {}])]
       ELSE /\ p_pc' = "gate"
            /\ UNCHANGED p_result
    /\ UNCHANGED <<mgrVars, loopVars, bridgeVars, expVars, normVars, p_cfg, p_task, p_file, p_tmp,
                   p_state, p_idx, p_save, p_runs, p_log, p_foreign, p_eof>>

\* research_planner.py:365-371  the step is handed to DirectSolver
Dispatch(i) ==
    [p_log EXCEPT !.dispatched = Append(@, [index |-> i, step |-> PlanSteps(p_state)[i]])]

\* research_planner.py:354-364, 379  the execution loop reaches its next
\* step: the loop ends, or the step is skipped as done, or the human is
\* asked, or the step is dispatched
StepBegin ==
    /\ p_pc = "loop"
    /\ p_save = "none"
    /\ IF p_idx > Len(PlanSteps(p_state))
       THEN /\ p_pc' = "returned"
            /\ p_result' = [status |-> "completed"]
            /\ UNCHANGED <<p_idx, p_log>>
       ELSE LET step == PlanSteps(p_state)[p_idx]
                seen == [p_log EXCEPT !.seen = Append(@, p_idx)]
            IN  /\ UNCHANGED p_result
                /\ IF Get(step, "status", "None") = "done"
                   THEN /\ p_idx' = p_idx + 1
                        /\ p_log' = seen
                        /\ UNCHANGED p_pc
                   ELSE IF NeedsConfirm(step)
                   THEN /\ p_pc' = "confirm"
                        /\ p_log' = seen
                        /\ UNCHANGED p_idx
                   ELSE /\ p_pc' = "solving"
                        /\ p_log' = [Dispatch(p_idx) EXCEPT !.seen = Append(@, p_idx)]
                        /\ UNCHANGED p_idx
    /\ UNCHANGED <<mgrVars, loopVars, bridgeVars, expVars, normVars, p_cfg, p_task, p_file, p_tmp,
                   p_state, p_save, p_runs, p_foreign, p_eof>>

\* research_planner.py:362-364  the human answers the step's prompt
Confirm(ans) ==
    /\ p_pc = "confirm"
    /\ p_eof => ans = ""
    /\ IF ans = "y"
       THEN /\ p_pc' = "solving"
            /\ p_log' = [Dispatch(p_idx) EXCEPT !.yes = @ \cup {p_idx}]
            /\ UNCHANGED p_idx
       ELSE /\ p_pc' = "loop"
            /\ p_idx' = p_idx + 1
            /\ p_log' = [p_log EXCEPT !.no = @ \cup {p_idx}, !.processed = @ + 1]
    /\ UNCHANGED <<mgrVars, loopVars, bridgeVars, expVars, normVars, p_cfg, p_task, p_file, p_tmp,
                   p_state, p_save, p_result, p_runs, p_foreign, p_eof>>

\* research_planner.py:371-378  DirectSolver returns or raises; the state is
\* then saved and the loop goes on with the next step
SolverEnds(raises) ==
    /\ p_pc = "solving"
    /\ p_state' = IF raises THEN SolverRaised(p_state, p_idx)
                  ELSE SolverReturned(p_state, p_idx)
    /\ p_log' = [p_log EXCEPT !.raised = IF raises THEN @ \cup {p_idx} ELSE @,
                              !.processed = @ + 1]
    /\ p_save' = "open"
    /\ p_pc' = "loop"
    /\ p_idx' = p_idx + 1
    /\ UNCHANGED <<mgrVars, loopVars, bridgeVars, expVars, normVars, p_cfg, p_task, p_file, p_tmp,
                   p_result, p_runs, p_foreign, p_eof>>

\* research_planner.py:301-303  standard input ends while _ask_human waits:
\* this readline() and every later one return "".  (An input that ended
\* earlier is seen at the first read; that Run starts with p_eof false loses
\* no behaviour.)
StdinEnds ==
    /\ p_pc \in {"gate", "confirm"}
    /\ ~p_eof
    /\ p_eof' = TRUE
    /\ UNCHANGED <<mgrVars, loopVars, bridgeVars, expVars, normVars, p_pc, p_cfg, p_task, p_file,
                   p_tmp, p_state, p_idx, p_save, p_result, p_runs, p_log, p_foreign>>

\* research_planner.py:169-171  _save_state opens the temp file
SaveOpen ==
    /\ p_save = "open"
    /\ p_pc # "crashed"
    /\ p_file' = OpenForWrite(p_file, p_tmp).file
    /\ p_tmp' = OpenForWrite(p_file, p_tmp).tmp
    /\ p_save' = "dump"
    /\ UNCHANGED <<mgrVars, loopVars, bridgeVars, expVars, normVars, p_pc, p_cfg, p_task, p_state,
                   p_idx, p_result, p_runs, p_log, p_foreign, p_eof>>

\* research_planner.py:172, 174-175  json.dump writes the state into the temp
\* file, or fails: the failure is logged and _save_state returns
SaveDump(fails) ==
    /\ p_save = "dump"
    /\ IF fails
       THEN /\ p_save' = "none"
            /\ UNCHANGED p_tmp
       ELSE /\ p_save' = "move"
            /\ p_tmp' = Complete(p_state)
    /\ UNCHANGED <<mgrVars, loopVars, bridgeVars, expVars, normVars, p_pc, p_cfg, p_task, p_file,
                   p_state, p_idx, p_result, p_runs, p_log, p_foreign, p_eof>>

\* research_planner.py:173  shutil.move(tmp, path): the temp file is renamed
\* over the state file
SaveMove ==
    /\ p_save = "move"
    /\ p_file' = p_tmp
    /\ p_tmp' = Absent
    /\ p_save' = "none"
    /\ UNCHANGED <<mgrVars, loopVars, bridgeVars, expVars, normVars, p_pc, p_cfg, p_task, p_state,
                   p_idx, p_result, p_runs, p_log, p_foreign, p_eof>>

\* the process dies: what run held in memory is gone, the files stay
Crash ==
    /\ p_pc \notin {"idle", "returned", "crashed"}
    /\ p_pc' = "crashed"
    /\ p_save' = "none"
    /\ p_state' = EmptyDict
    /\ UNCHANGED <<mgrVars, loopVars, bridgeVars, expVars, normVars, p_cfg, p_task, p_file, p_tmp,
                   p_idx, p_result, p_runs, p_log, p_foreign, p_eof>>

\* a state file as an earlier run left it: the plan of ReplyPlan with its
\* first step done
FileResume ==
    SolverReturned([goal |-> "g1", plan |-> Pipeline(ReplyPlan, MaxPlanLen), history |-> <<>>], 1)

\* a state file that holds a plan no watchdog has seen
FileUnvalidated ==
    [goal |-> "g1", plan |-> NormalizePlan(ReplyBlocked, MaxPlanLen), history |-> <<>>]

\* research_planner.py:139-146  __init__; the run directory is empty or holds
\* a state file
PlannerInit ==
    /\ ManagerInit /\ BridgeIdle /\ CalcIdle /\ AdaptIdle /\ EvoIdle /\ PgIdle
    /\ n_pc = "idle" /\ n_max = 0
    /\ n_raw = EmptyDict /\ n_once = EmptyDict /\ n_twice = EmptyDict /\ n_valid = EmptyDict
    /\ p_pc = "idle"
    /\ p_cfg \in [human_check : BOOLEAN, max_steps : MaxStepsChoices]
    /\ p_task = ""
    /\ p_file \in {Absent, Complete(FileResume), Complete(FileUnvalidated)}
    /\ p_foreign = (p_file # Absent)
    /\ p_eof = FALSE
    /\ p_tmp = Absent
    /\ p_state = EmptyDict
    /\ p_idx = 0 /\ p_save = "none" /\ p_result = EmptyDict /\ p_runs = 0
    /\ p_log = NewLog("none", "none")

PlannerNext ==
    \/ \E task \in Tasks, reply \in Replies : Run(task, reply)
    \/ \E ans \in {"go", "abort", "", "feedback"}, reply \in Replies : Gate(ans, reply)
    \/ RevisionChecked
    \/ StepBegin
    \/ \E ans \in {"y", "n", ""} : Confirm(ans)
    \/ StdinEnds
    \/ \E raises \in BOOLEAN : SolverEnds(raises)
    \/ SaveOpen
    \/ \E fails \in BOOLEAN : SaveDump(fails)
    \/ SaveMove
    \/ Crash

PlannerSpec == PlannerInit /\ [][PlannerNext]_vars

(***************************************************************************)
(* Properties of Part IV.                                                  *)
(***************************************************************************)
\* the steps handed to DirectSolver in the current run
Dispatched == {p_log.dispatched[k] : k \in 1..Len(p_log.dispatched)}

C11_NoBlockedStepFromOwnPlans ==
    ~p_foreign => \A d \in Dispatched : ~NamesBlockListed(d.step)

C14_NoDispatchBeforeGo ==
    /\ (p_cfg.human_check /\ Dispatched # {}) => p_log.gate = "go"
    /\ p_log.gate = "abort" =>
           /\ p_pc = "returned"
           /\ p_result = [status |-> "aborted"]
           /\ Dispatched = {}

\* with the gate enabled a step was dispatched after a revision and go
C14_Witness ==
    /\ p_cfg.human_check
    /\ p_log.revisions > 0
    /\ p_log.gate = "go"
    /\ Dispatched # {}

\* C15: when generation or revision gave a refused plan (the planner refused,
\* the reply held no JSON or JSON that does not parse, the plan has no step,
\* or the watchdog refused it), the run dispatches nothing and returns status
\* failed with the reason of the refusal.
C15_RefusedPlanFails ==
    p_log.cause # "none" =>
        /\ Dispatched = {}
        /\ p_pc \in {"revised", "returned", "crashed"}
        /\ p_pc = "returned" =>
               /\ p_result.status = "failed"
               /\ CASE p_log.cause = "planner" -> p_result.reason = LmReason
                    [] p_log.cause = "zero_steps" -> p_result.reason = ZeroStepsReason
                    [] p_log.cause = "watchdog" -> p_result.reason.use = Preferred
                    [] OTHER -> p_result.reason.text
                                    = FailureReason([failure |-> p_log.cause]).text

\* a revision that the watchdog refused has ended the run
C15_Witness ==
    /\ p_log.origin = "revised"
    /\ p_log.cause = "watchdog"
    /\ p_pc = "returned"
    /\ p_result.status = "failed"

\* C16: a step that has requires_human_confirm set or compute_cost High is
\* dispatched only after the human answered y at the prompt of that step.
C16_CostlyStepNeedsYes ==
    \A d \in Dispatched :
        (d.step.requires_human_confirm \/ d.step.compute_cost = "High") =>
            d.index \in p_log.yes

\* a step of High cost was dispatched after a step that needed no answer
C16_Witness ==
    \E d, e \in Dispatched :
        /\ d.step.compute_cost = "High" /\ ~d.step.requires_human_confirm
        /\ e.index < d.index /\ e.index \notin p_log.yes

\* C17: a step the human declined at its prompt has status skipped in the
\* plan of the state.
C17_DeclinedStepIsSkipped ==
    p_pc \in {"loop", "confirm", "solving", "returned"} =>
        \A i \in p_log.no : PlanSteps(p_state)[i].status = "skipped"

\* the step DirectSolver is working on
Current_step == PlanSteps(p_state)[p_idx]

\* C18: when DirectSolver raises, the step is not marked done, an error entry
\* with its step id is appended to history and the loop goes on with the next
\* step; a step becomes done only when its DirectSolver call returned; a run
\* that completes has reached every step of the plan, in order.
C18_FailedStepIsRecordedAndLoopGoesOn ==
    /\ [][(p_pc = "solving" /\ p_pc' # "crashed") =>
             /\ p_pc' = "loop" /\ p_idx' = p_idx + 1
             /\ Len(PlanSteps(p_state')) = Len(PlanSteps(p_state))
             /\ \A i \in 1..Len(PlanSteps(p_state)) :
                    i # p_idx => PlanSteps(p_state')[i] = PlanSteps(p_state)[i]
             /\ IF p_idx \in p_log'.raised
                THEN /\ PlanSteps(p_state')[p_idx] = Current_step
                     /\ Current_step.status # "done"
                     /\ p_state'.history =
                            Append(p_state.history,
                                   [step |-> Current_step.step_id, error |-> "str(e)"])
                ELSE PlanSteps(p_state')[p_idx].status = "done"]_vars
    /\ [][(p_pc \notin {"solving", "idle", "returned", "crashed"} /\ p_pc' # "crashed"
              /\ p_log'.origin = p_log.origin) =>
             \A i \in 1..Len(PlanSteps(p_state)) :
                 (i <= Len(PlanSteps(p_state')) /\ PlanSteps(p_state')[i].status = "done") =>
                     PlanSteps(p_state)[i].status = "done"]_vars
    /\ [](p_pc = "returned" /\ p_result = [status |-> "completed"] =>
             p_log.seen = [i \in 1..Len(PlanSteps(p_state)) |-> i])

\* DirectSolver raised on the first step and returned on the second
C18_Witness ==
    /\ p_pc = "returned"
    /\ p_log.raised = {1}
    /\ Len(PlanSteps(p_state)) = 2
    /\ PlanSteps(p_state)[1].status = "pending"
    /\ PlanSteps(p_state)[2].status = "done"
    /\ Len(p_state.history) = 2
    /\ p_result = [status |-> "completed"]

\* C19: when the execution loop begins a step after it has dealt with an
\* earlier one, research_state.json holds the state as it is: the statuses of
\* the plan's steps and the history.
C19_StateSavedBeforeNextStep ==
    (p_pc = "loop" /\ p_save = "none" /\ p_log.processed > 0) =>
        p_file = Complete(p_state)

\* the same, for runs in which no step was declined and no write failed
C19_StateSavedAfterDispatchedStep ==
    [][(p_save = "move" /\ p_save' = "none" /\ p_pc' = "loop") =>
          p_file' = Complete(p_state')]_vars

\* C20: research_state.json is never partial, and it changes only in the
\* rename, to the whole text of the state being saved; a crash at any point
\* of _save_state leaves it as it was or as the rename made it.
C20_StateFileAtomic ==
    /\ [](p_file # Partial)
    /\ [][p_file' # p_file =>
             /\ p_save = "move" /\ p_save' = "none"
             /\ p_file' = Complete(p_state)]_vars
    /\ [][p_pc' = "crashed" => p_file' = p_file]_vars

\* the process crashed while the temp file was being written, and the state
\* file holds the version an earlier save of this planner put there
C20_Witness ==
    /\ p_pc = "crashed"
    /\ p_tmp = Partial
    /\ p_file.kind = "state"
    /\ p_file.content.history # <<>>
    /\ ~p_foreign

\* the indexes of the dispatched steps, in the order of their dispatch
DispatchedIndexes == [k \in 1..Len(p_log.dispatched) |-> p_log.dispatched[k].index]

\* the state file holds a plan with steps whose goal is the task
FileHoldsPlanFor(task_description) ==
    /\ p_file.kind = "state"
    /\ p_file.content.goal = task_description
    /\ "isNone" \notin DOMAIN p_file.content.plan
    /\ Get(p_file.content.plan, "steps", <<>>) # <<>>

C36_SavedGoalIsTaskOfPlan ==
    [][(/\ p_save = "move"
        /\ p_file' = p_tmp
        /\ p_tmp' = Absent
        /\ p_log.origin \in {"generated", "revised"})
           => (/\ p_file'.kind = "state"
               /\ p_file'.content.goal = p_task)]_vars

\* a run for g2 found the goal g1 in the state file, generated a plan for
\* g2, executed a step of it and saved: the file names g1 as the goal
C36_Witness ==
    /\ p_task = "g2"
    /\ p_log.origin = "generated"
    /\ p_log.processed > 0
    /\ p_save = "none"
    /\ p_file = Complete(p_state)
    /\ p_state.goal = "g1"

\* research_planner.py:324-378  the steps run takes by itself once it was
\* called: it reads an answer, checks a revision, goes through the loop and
\* saves.  That the process dies, that a new run is started and that
\* standard input ends are not steps of run.
PlannerSteps ==
    \/ \E ans \in {"go", "abort", "", "feedback"}, reply \in Replies : Gate(ans, reply)
    \/ RevisionChecked
    \/ StepBegin
    \/ \E ans \in {"y", "n", ""} : Confirm(ans)
    \/ \E raises \in BOOLEAN : SolverEnds(raises)
    \/ SaveOpen
    \/ \E fails \in BOOLEAN : SaveDump(fails)
    \/ SaveMove

\* the interpreter keeps executing run: a step of run that stays possible
\* is taken
PlannerLiveSpec == PlannerSpec /\ WF_vars(PlannerSteps)

\* C37: a run that waits at the pre-flight gate when standard input is
\* exhausted (every further readline() returns "") still returns.
C37_GateEndsAtEndOfInput ==
    (p_pc = "gate" /\ p_eof) ~> (p_pc \in {"returned", "crashed"})

\* the run waits at the gate and standard input has ended
C37_Witness ==
    /\ p_pc = "gate"
    /\ p_eof
    /\ p_save = "none"

\* C38: a run that returned status completed has every step of its plan done
\* or declined by the human; none of its DirectSolver calls raised.
C38_CompletedMeansDoneOrDeclined ==
    (p_pc = "returned" /\ p_result = [status |-> "completed"]) =>
        /\ p_log.raised = {}
        /\ \A i \in 1..Len(PlanSteps(p_state)) :
               \/ Get(PlanSteps(p_state)[i], "status", "None") = "done"
               \/ i \in p_log.no

\* what run does instead: it returns completed once the loop has passed every
\* step; a step is then done, or was declined, or its DirectSolver call
\* raised, and a step whose call raised is not done and has an error entry
\* in the history
C38_CompletedMeansEveryStepPassed ==
    (p_pc = "returned" /\ p_result = [status |-> "completed"]) =>
        /\ \A i \in 1..Len(PlanSteps(p_state)) :
               \/ Get(PlanSteps(p_state)[i], "status", "None") = "done"
               \/ i \in p_log.no
               \/ i \in p_log.raised
        /\ \A i \in p_log.raised :
               /\ Get(PlanSteps(p_state)[i], "status", "None") # "done"
               /\ \E k \in 1..Len(p_state.history) :
                      /\ "error" \in DOMAIN p_state.history[k]
                      /\ p_state.history[k].step = Get(PlanSteps(p_state)[i], "step_id", 0)

\* a run whose DirectSolver call raised has returned completed
C38_Witness ==
    /\ p_pc = "returned"
    /\ p_result = [status |-> "completed"]
    /\ p_log.raised # {}
    /\ p_log.no = {}

(***************************************************************************)
(* Part V.  ResilientCalcExp.run (resilient_calc_exp.py:44-99).  The run   *)
(* waits in agent.run, _check_job_status, _diagnose_error, _get_results    *)
(* and time.sleep; what those give is an input of the step that follows.   *)
(* The three hooks raise NotImplementedError in the class itself and are   *)
(* meant to be overridden.                                                 *)
(*   r_pc: "idle", "poll" (line 56), "results" (line 61), "diagnose" (line *)
(*         76), "fix" (line 85), "sleep" (line 92), "returned", "raised"   *)
(***************************************************************************)
\* the largest max_retries of a configuration
MaxRetries == 2
\* number of polls in a row that find the same job still running
MaxPending == 1
\* the job ids the agent can hand out: enough for every resubmission
MaxJobs == MaxRetries + 2

\* what _check_job_status may return
Statuses == {"Done", "Success", "Finished", "Unknown", "Failed", "Error", "Cancelled", "Running"}

\* what _diagnose_error may return
ErrorCodes == {"OOM", "SCF", "DISK"}

\* configurations of resilient_calc.error_handlers: none, one code with fix
\* actions, and one more code with an empty list of actions
HandlerChoices ==
    {EmptyDict, [OOM |-> <<"mem=64G">>], [OOM |-> <<"mem=64G">>, SCF |-> <<>>]}

\* resilient_calc_exp.py:59, 63, 74  the branches of the loop body
StatusClass(status) ==
    CASE status \in {"Done", "Success", "Finished"} -> "done"
      [] status = "Unknown" -> "unknown"
      [] status \in {"Failed", "Error", "Cancelled"} -> "failed"
      [] OTHER -> "other"

\* a mutant of FixActions: a code without handler gets a default action
FixActionsDefault(error_handlers, error_code) == <<"retry">>

\* resilient_calc_exp.py:79  self.error_handlers.get(error_code); None and
\* the empty list are both falsy at line 80
FixActions(error_handlers, error_code) == Get(error_handlers, error_code, <<>>)

\* a mutant of NextJob: the id of the failed job is kept
NextJobKeepsOld(job_id, new_job_id) == job_id

\* resilient_calc_exp.py:87  job_id = new_job_id
NextJob(job_id, new_job_id) == new_job_id

\* a mutant of Retried: the counter is not incremented
RetriedNotCounted(retries) == retries

\* resilient_calc_exp.py:88  retries += 1
Retried(retries) == retries + 1

\* resilient_calc_exp.py:94-99  the value returned after the loop
GaveUp(job_id, retries) ==
    [status |-> "failed", job_id |-> job_id, retries |-> retries,
     message |-> "Calculation failed after retries."]

\* resilient_calc_exp.py:67-72  the value returned on status Unknown
UnknownStatus(job_id, retries) ==
    [status |-> "failed", job_id |-> job_id, retries |-> retries,
     message |-> "Job status unknown."]

\* what the run has done so far (history variable)
\*   submitted  the job ids extracted from the agent's trajectories, in order
\*   polled     the job ids handed to _check_job_status, in order
\*   status     the status the last poll returned
\*   code       the error code the last diagnosis returned
\*   fixes      number of calls of _apply_fix_and_resubmit
\*   agent_runs number of calls of agent.run
\*   waits      number of polls in a row that found the job still running
NewCalcLog ==
    [submitted |-> <<>>, polled |-> <<>>, status |-> "none", code |-> "none",
     fixes |-> 0, agent_runs |-> 0, waits |-> 0]

\* resilient_calc_exp.py:55, 94-99  the loop condition: the body is entered or
\* the run returns
WhileRetries(job_id, retries) ==
    IF retries < r_cfg.max_retries
    THEN /\ r_pc' = "poll"
         /\ UNCHANGED r_result
    ELSE /\ r_pc' = "returned"
         /\ r_result' = GaveUp(job_id, retries)

\* resilient_calc_exp.py:44-55  the agent runs the task; a job id is found in
\* its trajectory or not
CalcRun(found) ==
    /\ r_pc = "idle"
    /\ IF ~found
       THEN /\ r_pc' = "returned"
            /\ r_result' = [status |-> "trajectory.status"]
            /\ r_log' = [r_log EXCEPT !.agent_runs = @ + 1]
            /\ UNCHANGED <<r_job, r_retries>>
       ELSE /\ r_job' = 1
            /\ r_retries' = 0
            /\ r_log' = [r_log EXCEPT !.agent_runs = @ + 1, !.submitted = <<1>>]
            /\ WhileRetries(1, 0)
    /\ UNCHANGED <<mgrVars, loopVars, bridgeVars, plannerVars, adaptVars, evoVars, pgVars, r_cfg>>

\* resilient_calc_exp.py:56-74, 92  _check_job_status returns
Poll(status) ==
    /\ r_pc = "poll"
    /\ StatusClass(status) = "other" => r_log.waits < MaxPending
    /\ r_log' = [r_log EXCEPT !.polled = Append(@, r_job), !.status = status,
                              !.waits = IF StatusClass(status) = "other" THEN @ + 1 ELSE 0]
    /\ CASE StatusClass(status) = "done" ->
              /\ r_pc' = "results"
              /\ UNCHANGED r_result
         [] StatusClass(status) = "unknown" ->
              /\ r_pc' = "returned"
              /\ r_result' = UnknownStatus(r_job, r_retries)
         [] StatusClass(status) = "failed" ->
              /\ r_pc' = "diagnose"
              /\ UNCHANGED r_result
         [] OTHER ->
              /\ r_pc' = "sleep"
              /\ UNCHANGED r_result
    /\ UNCHANGED <<mgrVars, loopVars, bridgeVars, plannerVars, adaptVars, evoVars, pgVars, r_cfg,
                   r_job, r_retries>>

\* resilient_calc_exp.py:61  _get_results returns
Results ==
    /\ r_pc = "results"
    /\ r_pc' = "returned"
    /\ r_result' = [job_id |-> r_job, status |-> r_log.status, results |-> r_job]
    /\ UNCHANGED <<mgrVars, loopVars, bridgeVars, plannerVars, adaptVars, evoVars, pgVars, r_cfg,
                   r_job, r_retries, r_log>>

\* resilient_calc_exp.py:76-82, 94-99  _diagnose_error returns
Diagnose(error_code) ==
    /\ r_pc = "diagnose"
    /\ r_log' = [r_log EXCEPT !.code = error_code]
    /\ IF FixActions(r_cfg.error_handlers, error_code) = <<>>
       THEN /\ r_pc' = "returned"
            /\ r_result' = GaveUp(r_job, r_retries)
       ELSE /\ r_pc' = "fix"
            /\ UNCHANGED r_result
    /\ UNCHANGED <<mgrVars, loopVars, bridgeVars, plannerVars, adaptVars, evoVars, pgVars, r_cfg,
                   r_job, r_retries>>

\* resilient_calc_exp.py:85-90, 115-124  the agent applies the fix and
\* resubmits; a new job id is found in its trajectory or not
Fix(found) ==
    /\ r_pc = "fix"
    /\ Len(r_log.submitted) < MaxJobs
    /\ IF found
       THEN LET new_job_id == Len(r_log.submitted) + 1
            IN  /\ r_job' = NextJob(r_job, new_job_id)
                /\ r_retries' = Retried(r_retries)
                /\ r_log' = [r_log EXCEPT !.fixes = @ + 1, !.agent_runs = @ + 1,
                                          !.submitted = Append(@, new_job_id), !.waits = 0]
                /\ r_pc' = "sleep"
                /\ UNCHANGED r_result
       ELSE /\ r_log' = [r_log EXCEPT !.fixes = @ + 1, !.agent_runs = @ + 1]
            /\ r_pc' = "returned"
            /\ r_result' = GaveUp(r_job, r_retries)
            /\ UNCHANGED <<r_job, r_retries>>
    /\ UNCHANGED <<mgrVars, loopVars, bridgeVars, plannerVars, adaptVars, evoVars, pgVars, r_cfg>>

\* resilient_calc_exp.py:92, 55  time.sleep returns and the loop condition is
\* tested
Sleep ==
    /\ r_pc = "sleep"
    /\ WhileRetries(r_job, r_retries)
    /\ UNCHANGED <<mgrVars, loopVars, bridgeVars, plannerVars, adaptVars, evoVars, pgVars, r_cfg,
                   r_job, r_retries, r_log>>

\* resilient_calc_exp.py:101-113, 151-155  a hook or the agent raises: run
\* has no try, the exception leaves it
HookRaises ==
    /\ r_pc \in {"poll", "results", "diagnose", "fix"}
    /\ r_pc' = "raised"
    /\ UNCHANGED <<mgrVars, loopVars, bridgeVars, plannerVars, adaptVars, evoVars, pgVars, r_cfg,
                   r_job, r_retries, r_result, r_log>>

\* resilient_calc_exp.py:35-42  __init__
CalcInit ==
    /\ ManagerInit /\ BridgeIdle /\ PlannerIdle /\ AdaptIdle /\ EvoIdle /\ PgIdle
    /\ r_pc = "idle"
    /\ r_cfg \in [max_retries : 0..MaxRetries, error_handlers : HandlerChoices]
    /\ r_job = 0 /\ r_retries = 0 /\ r_result = EmptyDict
    /\ r_log = NewCalcLog

CalcNext ==
    \/ \E found \in BOOLEAN : CalcRun(found)
    \/ \E status \in Statuses : Poll(status)
    \/ Results
    \/ \E error_code \in ErrorCodes : Diagnose(error_code)
    \/ \E found \in BOOLEAN : Fix(found)
    \/ Sleep
    \/ HookRaises

CalcSpec == CalcInit /\ [][CalcNext]_vars

\* the same with every call the run waits in returning in the end
CalcLiveSpec == CalcSpec /\ WF_vars(CalcNext)

(***************************************************************************)
(* Properties of Part V.                                                   *)
(***************************************************************************)
\* the job id extracted last
LastSubmitted == r_log.submitted[Len(r_log.submitted)]

\* C23: after a failed job whose error code has a handler the agent applies
\* the fix and resubmits; the job polled from then on is the one the
\* resubmission returned; when a poll finds that job done the run returns its
\* results, and retries is the number of resubmissions.
C23_ResubmittedJobIsTheOnePolled ==
    /\ [][(r_pc = "diagnose" /\ r_pc' # "raised"
              /\ Get(r_cfg.error_handlers, r_log'.code, <<>>) # <<>>) =>
             r_pc' = "fix"]_vars
    /\ [][(r_pc = "fix" /\ r_pc' = "sleep") =>
             /\ Len(r_log'.submitted) = Len(r_log.submitted) + 1
             /\ r_job' = r_log'.submitted[Len(r_log'.submitted)]
             /\ r_job' # r_job]_vars
    /\ [][Len(r_log'.polled) > Len(r_log.polled) =>
             r_log'.polled[Len(r_log'.polled)] = LastSubmitted]_vars
    /\ [][(r_pc = "poll" /\ r_log'.status \in {"Done", "Success", "Finished"}) =>
             r_pc' = "results"]_vars
    /\ [][(r_pc = "results" /\ r_pc' # "raised") =>
             /\ r_pc' = "returned"
             /\ r_result'.job_id = LastSubmitted
             /\ r_result'.results = LastSubmitted]_vars
    /\ [](r_log.submitted # <<>> => r_retries = Len(r_log.submitted) - 1)

\* the first job failed, the fix gave a second job, and the run returned the
\* results of the second
C23_Witness ==
    /\ r_pc = "returned"
    /\ r_log.polled = <<1, 2>>
    /\ r_retries = 1
    /\ r_result = [job_id |-> 2, status |-> "Done", results |-> 2]

\* C24: when every job polled reports a terminal status in the end, the run
\* ends (it returns, or an exception leaves it), and it asks for at most
\* max_retries resubmissions.
C24_RunEndsWithinMaxRetries ==
    /\ <>(r_pc \in {"returned", "raised"})
    /\ [](r_log.fixes <= r_cfg.max_retries)
    /\ [](Len(r_log.submitted) <= r_cfg.max_retries + 1)

\* the run has ended after as many resubmissions as max_retries allows, and
\* some poll had found a job still running
C24_Witness ==
    /\ r_pc = "returned"
    /\ r_cfg.max_retries = MaxRetries
    /\ r_log.fixes = MaxRetries
    /\ Len(r_log.polled) > MaxRetries

\* C25: on status Unknown, and on a failed job whose error code has no entry
\* in error_handlers, the run returns status failed at once: the agent is not
\* run again, nothing is resubmitted and retries stays as it is.
C25_UnknownOrUnhandledStopsAtOnce ==
    [][(\/ r_pc = "poll" /\ r_log'.status = "Unknown"
        \/ r_pc = "diagnose" /\ r_pc' # "raised"
               /\ r_log'.code \notin DOMAIN r_cfg.error_handlers) =>
          /\ r_pc' = "returned"
          /\ r_result'.status = "failed"
          /\ r_retries' = r_retries
          /\ r_job' = r_job
          /\ r_log'.fixes = r_log.fixes
          /\ r_log'.agent_runs = r_log.agent_runs
          /\ r_log'.submitted = r_log.submitted]_vars

\* after one resubmission the second job failed with a code that has no
\* handler, and the run has returned
C25_Witness ==
    /\ r_pc = "returned"
    /\ r_result.status = "failed"
    /\ r_retries = 1
    /\ r_log.status = "Failed"
    /\ r_log.code \notin DOMAIN r_cfg.error_handlers
    /\ Len(r_log.polled) = 2

\* C39: when the run returns failed with the message that the calculation
\* failed after N retries, and max_retries is at least 1, every job that was
\* submitted, the first one and every resubmission, has been polled at least
\* once.
C39_EverySubmittedJobPolled ==
    (/\ r_pc = "returned"
     /\ r_cfg.max_retries >= 1
     /\ r_result = GaveUp(r_job, r_retries)) =>
        \A i \in 1..Len(r_log.submitted) :
            \E j \in 1..Len(r_log.polled) : r_log.polled[j] = r_log.submitted[i]

\* max_retries is 1, the first job failed with a code that has a handler,
\* the agent resubmitted, and the run has returned failed after 1 retry
\* without a poll of the second job
C39_Witness ==
    /\ r_pc = "returned"
    /\ r_cfg.max_retries = 1
    /\ r_result = GaveUp(2, 1)
    /\ r_log.submitted = <<1, 2>>
    /\ r_log.polled = <<1>>

(***************************************************************************)
(* Part VI.  CalculationPathAdaptor.resolve_args (path_adaptor.py:162-191) *)
(* as MCPTool.execute calls it (mcp.py:100-119).  Names, values and paths  *)
(* are sequences of characters, so that strip, lower, startswith, the      *)
(* scheme of a URL and the order of sorted() are computed.                 *)
(*   a_pc: "idle", "sent" (the arguments went to the tool), "failed"       *)
(*         (ToolError), "again" (resolve_args was applied to its result)   *)
(*   a_uploads: the files uploaded so far                                  *)
(***************************************************************************)
\* the schemes of path_adaptor.py:100 and the prefixes of 102, 110, 113
T_http == <<"h", "t", "t", "p">>

T_https == <<"h", "t", "t", "p", "s">>

T_local_scheme == <<"l", "o", "c", "a", "l", ":", "/", "/">>

T_workspace_dir == <<"/", "w", "o", "r", "k", "s", "p", "a", "c", "e", "/">>

T_workspace == <<"/", "w", "o", "r", "k", "s", "p", "a", "c", "e">>

\* str(None)
T_None == <<"N", "o", "n", "e">>

\* the words of path_adaptor.py:84-88
T__path == <<"_", "p", "a", "t", "h">>

T_pdf_path == <<"p", "d", "f", "_", "p", "a", "t", "h">>

T_input == <<"i", "n", "p", "u", "t">>

T_path == <<"p", "a", "t", "h">>

T_file == <<"f", "i", "l", "e">>

T_url == <<"u", "r", "l">>

\* argument names
K_initial_structure == <<"i", "n", "i", "t", "i", "a", "l", "_", "s", "t", "r", "u", "c", "t", "u", "r", "e">>

K_final_structure == <<"f", "i", "n", "a", "l", "_", "s", "t", "r", "u", "c", "t", "u", "r", "e">>

K_cif_path == <<"c", "i", "f", "_", "p", "a", "t", "h">>

K_output_file == <<"o", "u", "t", "p", "u", "t", "_", "f", "i", "l", "e">>

K_crystal_structure == <<"c", "r", "y", "s", "t", "a", "l", "_", "s", "t", "r", "u", "c", "t", "u", "r", "e">>

K_note == <<"n", "o", "t", "e">>

K_executor == <<"e", "x", "e", "c", "u", "t", "o", "r">>

K_storage == <<"s", "t", "o", "r", "a", "g", "e">>

\* a server name, and tool names with and without its prefix
N_s == <<"s">>

N_s_run_neb == <<"s", "_", "r", "u", "n", "_", "n", "e", "b">>

N_run_neb == <<"r", "u", "n", "_", "n", "e", "b">>

N_s_x == <<"s", "_", "x">>

N_extract_info_from_webpage == <<"e", "x", "t", "r", "a", "c", "t", "_", "i", "n", "f", "o", "_", "f", "r", "o", "m", "_", "w", "e", "b", "p", "a", "g", "e">>

\* descriptions of schema properties
D_input_file == <<"I", "n", "p", "u", "t", " ", "f", "i", "l", "e">>

D_output_path == <<"o", "u", "t", "p", "u", "t", " ", "p", "a", "t", "h">>

\* values of path arguments
V_http == <<"h", "t", "t", "p", ":", "/", "/", "h", "/", "a">>

V_HTTPS == <<"H", "T", "T", "P", "S", ":", "/", "/", "h", "/", "b">>

V_http_colon == <<"h", "t", "t", "p", ":", "a">>

V_LOCAL == <<"L", "O", "C", "A", "L", ":", "/", "/", "x">>

V_ws_file == <<"/", "w", "o", "r", "k", "s", "p", "a", "c", "e", "/", "a", ".", "c", "i", "f">>

V_rel_file == <<"a", ".", "c", "i", "f">>

V_padded == <<" ", "a", ".", "c", "i", "f", " ">>

V_backslash == <<"d", "\\", "b", ".", "c", "i", "f">>

V_ws_dir == <<"/", "w", "o", "r", "k", "s", "p", "a", "c", "e", "/", "d">>

V_ws == <<"/", "w", "o", "r", "k", "s", "p", "a", "c", "e">>

V_missing == <<"m", ".", "c", "i", "f">>

V_abs == <<"/", "x", "/", "a", ".", "c", "i", "f">>

V_blank == <<" ">>

\* the workspace root and the paths of the file system
P_w == <<"/", "w">>

P_w_a_cif == <<"/", "w", "/", "a", ".", "c", "i", "f">>

P_w_d == <<"/", "w", "/", "d">>

P_w_d_b_cif == <<"/", "w", "/", "d", "/", "b", ".", "c", "i", "f">>

P_x_a_cif == <<"/", "x", "/", "a", ".", "c", "i", "f">>

\* https://{bucket_name}.{host}/{oss_prefix}/ of oss_upload.py:60-64 (the time stamp of the key is left out)
OssBase == <<"h", "t", "t", "p", "s", ":", "/", "/", "b", ".", "e", "/", "k", "/">>

\* path_adaptor.py:76  key_hints
key_hints ==
    {<<"s", "t", "r", "u", "c", "t", "u", "r", "e", "_", "p", "a", "t", "h">>,
     <<"m", "o", "l", "e", "c", "u", "l", "e", "_", "p", "a", "t", "h">>,
     <<"m", "a", "t", "e", "r", "i", "a", "l", "_", "p", "a", "t", "h">>,
     <<"s", "u", "r", "f", "a", "c", "e", "_", "p", "a", "t", "h">>,
     <<"a", "d", "s", "o", "r", "b", "a", "t", "e", "_", "p", "a", "t", "h">>,
     <<"i", "n", "p", "u", "t", "_", "s", "t", "r", "u", "c", "t", "u", "r", "e">>,
     <<"i", "n", "i", "t", "i", "a", "l", "_", "s", "t", "r", "u", "c", "t", "u", "r", "e">>,
     <<"f", "i", "n", "a", "l", "_", "s", "t", "r", "u", "c", "t", "u", "r", "e">>,
     <<"p", "d", "f", "_", "p", "a", "t", "h">>}

\* the characters of argument names in the order of their code points
Ascii == <<"0", "1", "2", "3", "4", "5", "6", "7", "8", "9">> \o UpperCase \o <<"_">> \o LowerCase

Ord(c) == CHOOSE i \in 1..Len(Ascii) : Ascii[i] = c

\* a < b for str: at the first place where they differ a has ended or has
\* the smaller character
Less(a, b) ==
    \E i \in 1..Len(b) :
        /\ i <= Len(a) + 1
        /\ SubSeq(a, 1, i - 1) = SubSeq(b, 1, i - 1)
        /\ i = Len(a) + 1 \/ Ord(a[i]) < Ord(b[i])

\* sorted(names)
RECURSIVE Sorted(_)
Sorted(names) ==
    IF names = {} THEN <<>>
    ELSE LET first == CHOOSE x \in names : \A y \in names \ {x} : Less(x, y)
         IN  <<first>> \o Sorted(names \ {first})

\* text.lstrip(c): from the first character that is not c
LStrip(text, c) ==
    LET others == {i \in 1..Len(text) : text[i] # c}
    IN  IF others = {} THEN <<>>
        ELSE SubSeq(text, CHOOSE i \in others : \A j \in others : i <= j, Len(text))

\* text.rstrip(c): up to the last character that is not c
RStrip(text, c) ==
    LET others == {i \in 1..Len(text) : text[i] # c}
    IN  IF others = {} THEN <<>>
        ELSE SubSeq(text, 1, CHOOSE i \in others : \A j \in others : j <= i)

\* str.strip(); the space stands for every white space character
Strip(text) == RStrip(LStrip(text, " "), " ")

\* text.startswith(prefix)
StartsWith(text, prefix) ==
    Len(text) >= Len(prefix) /\ SubSeq(text, 1, Len(prefix)) = prefix

\* text.endswith(suffix)
EndsWith(text, suffix) ==
    Len(text) >= Len(suffix)
    /\ SubSeq(text, Len(text) - Len(suffix) + 1, Len(text)) = suffix

\* text.replace("\\", "/")
ReplaceBackslash(text) == [i \in 1..Len(text) |-> IF text[i] = "\\" THEN "/" ELSE text[i]]

IsAlpha(c) ==
    \/ \E i \in 1..Len(UpperCase) : UpperCase[i] = c
    \/ \E i \in 1..Len(LowerCase) : LowerCase[i] = c

\* urllib.parse  scheme_chars
IsSchemeChar(c) ==
    IsAlpha(c) \/ c \in {"0", "1", "2", "3", "4", "5", "6", "7", "8", "9", "+", "-", "."}

\* urlparse(url).scheme: what stands before the first ":" in lower case, when
\* it starts with a letter and consists of scheme characters; "" otherwise
Scheme(url) ==
    LET colons == {i \in 1..Len(url) : url[i] = ":"}
    IN  IF colons = {} THEN <<>>
        ELSE LET i == CHOOSE c \in colons : \A d \in colons : c <= d
             IN  IF i > 1 /\ IsAlpha(url[1]) /\ \A j \in 1..(i - 1) : IsSchemeChar(url[j])
                 THEN Lower(SubSeq(url, 1, i - 1))
                 ELSE <<>>

\* JSON values of arguments: a string, a list of strings, null
Str(text) == [t |-> "str", v |-> text]

Lst(texts) == [t |-> "list", v |-> texts]

NoneVal == [t |-> "None"]

\* str(val) of a string and of None
StrOf(val) == IF val.t = "None" THEN T_None ELSE val.v

\* path_adaptor.py:19-44  CALCULATION_PATH_ARGS, the rows of the tools that
\* are called here
CALCULATION_PATH_ARGS ==
    (N_run_neb :> {K_initial_structure, K_final_structure})
    @@ (N_extract_info_from_webpage :> {})

\* path_adaptor.py:67
NON_PATH_SCHEMA_KEYS == {K_crystal_structure, K_output_file}

\* path_adaptor.py:70-90  _path_arg_names_from_schema; a schema is None or
\* its "properties", a dict from names to [description, title]
PathArgNamesFromSchema(schema) ==
    IF schema = NoneVal THEN {}
    ELSE {key \in DOMAIN schema.properties :
            LET key_lower == Lower(key)
                desc == Lower(OrSeq(schema.properties[key].description,
                                    schema.properties[key].title))
            IN  /\ key_lower \notin NON_PATH_SCHEMA_KEYS
                /\ \/ \E h \in key_hints : Contains(key_lower, h)
                   \/ EndsWith(key_lower, T__path)
                   \/ key_lower = T_pdf_path
                   \/ /\ Contains(desc, T_input)
                      /\ \/ Contains(desc, T_path)
                         \/ Contains(desc, T_file)
                         \/ Contains(desc, T_url)}

\* a mutant of IsLocalPath: every value that is not blank is a local path
IsLocalPathAlways(value) == Strip(value) # <<>>

\* path_adaptor.py:93-104  _is_local_path, of a str
IsLocalPath(value) ==
    LET v == Strip(value)
    IN  /\ v # <<>>
        /\ Scheme(v) \notin {T_http, T_https}
        /\ ~StartsWith(Lower(v), T_local_scheme)

\* workspace_root / rel, resolved (no ".." and no symbolic link among the
\* inputs)
Join(workspace_root, rel) ==
    IF rel \in {<<>>, <<".">>} THEN workspace_root ELSE workspace_root \o <<"/">> \o rel

\* path_adaptor.py:110-119  _workspace_path_to_local, of the stripped value
\* with "/" for every backslash
ToLocal(v, workspace_root) ==
    IF StartsWith(v, T_workspace_dir)
    THEN Join(workspace_root, LStrip(SubSeq(v, Len(T_workspace_dir) + 1, Len(v)), "/"))
    ELSE IF StartsWith(v, T_workspace)
    THEN Join(workspace_root,
              OrSeq(LStrip(SubSeq(v, Len(T_workspace) + 1, Len(v)), "/"), <<".">>))
    ELSE IF Head(v) # "/"
    THEN Join(workspace_root, v)
    ELSE v

\* path_adaptor.py:107-119  _workspace_path_to_local
WorkspacePathToLocal(value, workspace_root) ==
    ToLocal(ReplaceBackslash(Strip(value)), workspace_root)

\* the file system: regular files and directories; every other path does
\* not exist
Files == {P_w_a_cif, P_w_d_b_cif, P_x_a_cif}

Directories == {P_w, P_w_d}

\* path.name
Basename(path) ==
    LET slashes == {i \in 1..Len(path) : path[i] = "/"}
    IN  IF slashes = {} THEN path
        ELSE SubSeq(path, (CHOOSE i \in slashes : \A j \in slashes : j <= i) + 1, Len(path))

\* oss_upload.py:59-66  the URL upload_file_to_oss returns
OssUrl(path) == OssBase \o Basename(path)

\* path_adaptor.py:127-139  _resolve_one of a local value that stands for
\* path; oss tells whether the upload succeeds.  The result is the value, the
\* uploads made, and the exception raised ("None" when it returns)
UploadLocal(value, path, oss) ==
    IF path \notin Files \cup Directories
    THEN [v |-> value, uploads |-> <<>>, exc |-> "FileNotFoundError"]
    ELSE IF path \notin Files
    THEN [v |-> value, uploads |-> <<>>, exc |-> "ValueError"]
    ELSE IF ~oss
    THEN [v |-> value, uploads |-> <<>>, exc |-> "RuntimeError"]
    ELSE [v |-> OssUrl(path), uploads |-> <<path>>, exc |-> "None"]

\* path_adaptor.py:122-139  _resolve_one
ResolveOne(value, workspace_root, oss) ==
    IF ~IsLocalPath(value)
    THEN [v |-> value, uploads |-> <<>>, exc |-> "None"]
    ELSE UploadLocal(value, WorkspacePathToLocal(value, workspace_root), oss)

\* a list comprehension over the results of the elements: it ends at the
\* first element that raised, and the uploads made are those of the elements
\* before it
Comprehension(each) ==
    LET raising == {i \in 1..Len(each) : each[i].exc # "None"}
        first == IF raising = {} THEN Len(each) + 1
                 ELSE CHOOSE i \in raising : \A j \in raising : i <= j
        uploaded == {i \in 1..(first - 1) : each[i].uploads # <<>>}
        nth(n) == CHOOSE i \in uploaded : Cardinality({u \in uploaded : u <= i}) = n
    IN  [v |-> IF raising = {} THEN [i \in 1..Len(each) |-> each[i].v] ELSE <<>>,
         uploads |-> [n \in 1..Cardinality(uploaded) |-> each[nth(n)].uploads[1]],
         exc |-> IF raising = {} THEN "None" ELSE each[first].exc]

\* path_adaptor.py:188  [_resolve_one(str(v), workspace_root) for v in val]
ResolveList(texts, workspace_root, oss) ==
    Comprehension([i \in 1..Len(texts) |-> ResolveOne(texts[i], workspace_root, oss)])

\* path_adaptor.py:186-190  out[key] = ..., a list element-wise and any other
\* value through str()
ResolveValue(val, workspace_root, oss) ==
    IF val.t = "list"
    THEN ResolveList(val.v, workspace_root, oss)
    ELSE ResolveList(<<StrOf(val)>>, workspace_root, oss)

\* the value of out[key] after the assignment
Assigned(val, l) == IF val.t = "list" THEN Lst(l.v) ELSE Str(l.v[1])

\* path_adaptor.py:183-190  the loop over sorted(path_arg_names)
RECURSIVE ResolveKeys(_, _, _, _)
RECURSIVE ResolveKey(_, _, _, _, _)
\* path_adaptor.py:186-190  the body of the loop for a key of out, l being
\* what resolving its value gave
ResolveKey(keys, out, workspace_root, oss, l) ==
    IF l.exc # "None"
    THEN [args |-> out, uploads |-> l.uploads, exc |-> l.exc]
    ELSE [ResolveKeys(Tail(keys), Put(out, Head(keys), Assigned(out[Head(keys)], l)),
                      workspace_root, oss)
            EXCEPT !.uploads = l.uploads \o @]

ResolveKeys(keys, out, workspace_root, oss) ==
    IF keys = <<>> THEN [args |-> out, uploads |-> <<>>, exc |-> "None"]
    ELSE IF Head(keys) \notin DOMAIN out
    THEN ResolveKeys(Tail(keys), out, workspace_root, oss)
    ELSE ResolveKey(keys, out, workspace_root, oss,
                    ResolveValue(out[Head(keys)], workspace_root, oss))

\* path_adaptor.py:172-174  remote_name
RemoteName(tool_name, server_name) ==
    IF server_name # <<>> /\ StartsWith(tool_name, server_name \o <<"_">>)
    THEN SubSeq(tool_name, Len(server_name) + 2, Len(tool_name))
    ELSE tool_name

\* path_adaptor.py:149-160  _resolve_executor; server_cfg is
\* calculation_executors.get(server_name)
ResolveExecutor(server_cfg, remote_tool_name) ==
    IF server_cfg = NoneVal THEN NoneVal
    ELSE IF remote_tool_name \in server_cfg.sync_tools THEN NoneVal
    ELSE IF server_cfg.executor = NoneVal THEN NoneVal
    ELSE [t |-> "executor", injected |-> TRUE]

\* evomaster/env/bohrium.py:32-43  get_bohrium_storage_config
StorageConfig == [t |-> "storage", type |-> "https"]

\* path_adaptor.py:178  path_arg_names
PathArgNames(tool_name, server_name, input_schema) ==
    Get(CALCULATION_PATH_ARGS, RemoteName(tool_name, server_name), {})
        \cup PathArgNamesFromSchema(input_schema)

\* path_adaptor.py:162-191  resolve_args; workspace_path is "" or the root
ResolveArgs(workspace_path, args, tool_name, server_name, input_schema, server_cfg, oss) ==
    LET remote_name == RemoteName(tool_name, server_name)
        out == Put(Put(args, K_executor, ResolveExecutor(server_cfg, remote_name)),
                   K_storage, StorageConfig)
        path_arg_names == PathArgNames(tool_name, server_name, input_schema)
    IN  IF path_arg_names = {} \/ workspace_path = <<>>
        THEN [args |-> out, uploads |-> <<>>, exc |-> "None"]
        ELSE ResolveKeys(Sorted(path_arg_names), out, workspace_path, oss)

\* mcp.py:107-112  the workspace path of a session: no session, a session
\* whose config has none, a session with one
WorkspacePathOf(session) == IF session \in {"None", "unset"} THEN <<>> ELSE P_w

\* the inputs of one call
Sessions == {"None", "unset", "workspace"}

Tools == {[tool_name |-> N_s_run_neb, server |-> N_s],
          [tool_name |-> N_run_neb, server |-> <<>>],
          [tool_name |-> N_s_x, server |-> N_s]}

Schemas ==
    {NoneVal,
     [properties |-> (K_cif_path :> [description |-> <<>>, title |-> <<>>])
                     @@ (K_output_file :> [description |-> D_input_file, title |-> <<>>])
                     @@ (K_note :> [description |-> <<>>, title |-> D_input_file])],
     [properties |-> (K_note :> [description |-> D_output_path, title |-> D_input_file])]}

ServerCfgs == {NoneVal,
               [sync_tools |-> {N_run_neb}, executor |-> [t |-> "template"]],
               [sync_tools |-> {}, executor |-> [t |-> "template"]]}

Missing == [t |-> "missing"]

StructureValues ==
    {Missing, NoneVal, Str(<<>>), Str(V_blank), Str(V_http), Str(V_HTTPS), Str(V_http_colon),
     Str(V_LOCAL), Str(V_ws_file), Str(V_rel_file), Str(V_padded), Str(V_backslash),
     Str(V_ws_dir), Str(V_ws), Str(V_missing), Str(V_abs),
     Lst(<<>>), Lst(<<V_http, V_HTTPS>>), Lst(<<V_http, V_rel_file>>),
     Lst(<<V_rel_file, V_missing>>)}

CifValues == {Missing, Str(V_http), Str(V_rel_file), Str(V_missing)}

NoteValues == {Missing, Str(V_rel_file)}

\* the dict of the arguments that are given
ArgsOf(structure, cif, note) ==
    LET all == (K_initial_structure :> structure) @@ (K_cif_path :> cif) @@ (K_note :> note)
    IN  [k \in {x \in DOMAIN all : all[x] # Missing} |-> all[k]]

\* mcp.py:100-146  MCPTool.execute of a tool with a path adaptor: the
\* arguments are resolved and handed to _call_mcp_tool_sync, or ToolError is
\* raised
Execute ==
    /\ a_pc = "idle"
    /\ LET r == ResolveArgs(WorkspacePathOf(a_in.session), a_in.args, a_in.tool.tool_name,
                            a_in.tool.server, a_in.schema, a_in.server_cfg, a_in.oss)
       IN  /\ a_pc' = IF r.exc = "None" THEN "sent" ELSE "failed"
           /\ a_out' = IF r.exc = "None"
                       THEN [status |-> "sent", args |-> r.args]
                       ELSE [status |-> "ToolError", cause |-> r.exc]
           /\ a_uploads' = r.uploads
    /\ UNCHANGED <<a_in, a_again>>
    /\ UNCHANGED <<mgrVars, loopVars, bridgeVars, plannerVars, calcVars, evoVars, pgVars>>

\* resolve_args applied to what it returned
ResolveAgain ==
    /\ a_pc = "sent"
    /\ LET r == ResolveArgs(WorkspacePathOf(a_in.session), a_out.args, a_in.tool.tool_name,
                            a_in.tool.server, a_in.schema, a_in.server_cfg, a_in.oss)
       IN  /\ a_pc' = "again"
           /\ a_again' = r
           /\ a_uploads' = a_uploads \o r.uploads
    /\ UNCHANGED <<a_in, a_out>>
    /\ UNCHANGED <<mgrVars, loopVars, bridgeVars, plannerVars, calcVars, evoVars, pgVars>>

AdaptInit ==
    /\ a_pc = "idle"
    /\ a_in \in {[session |-> s, tool |-> t, schema |-> sc, server_cfg |-> e, oss |-> o,
                  args |-> ArgsOf(x, c, n)] :
                    s \in Sessions, t \in Tools, sc \in Schemas, e \in ServerCfgs,
                    o \in BOOLEAN, x \in StructureValues, c \in CifValues, n \in NoteValues}
    /\ a_out = EmptyDict
    /\ a_again = EmptyDict
    /\ a_uploads = <<>>
    /\ ManagerInit /\ BridgeIdle /\ PlannerIdle /\ CalcIdle /\ EvoIdle /\ PgIdle

AdaptNext == Execute \/ ResolveAgain

AdaptSpec == AdaptInit /\ [][AdaptNext]_vars

\* text is an http:// or https:// URL
IsHttpUrl(text) ==
    \/ StartsWith(Lower(text), <<"h", "t", "t", "p", ":", "/", "/">>)
    \/ StartsWith(Lower(text), <<"h", "t", "t", "p", "s", ":", "/", "/">>)

\* text is a local:// URL
IsLocalUrl(text) == StartsWith(Lower(text), <<"l", "o", "c", "a", "l", ":", "/", "/">>)

\* the strings a value holds
TextsOf(val) ==
    IF val.t = "str" THEN {val.v}
    ELSE IF val.t = "list" THEN {val.v[i] : i \in 1..Len(val.v)}
    ELSE {}

\* the path arguments of the call that are given and hold a string or a list
\* of strings
PathArgsGiven ==
    {k \in PathArgNames(a_in.tool.tool_name, a_in.tool.server, a_in.schema) \cap DOMAIN a_in.args :
        a_in.args[k].t \in {"str", "list"}}

AllPathArgsAreUrls ==
    /\ \A k \in PathArgNames(a_in.tool.tool_name, a_in.tool.server, a_in.schema) \cap DOMAIN a_in.args :
          k \in PathArgsGiven
    /\ \A k \in PathArgsGiven : \A text \in TextsOf(a_in.args[k]) : IsHttpUrl(text)

\* C26: when every path argument of the call is an http:// or https:// URL,
\* alone or in a list, resolve_args returns, the path arguments are what they
\* were and nothing is uploaded; and resolve_args applied to what it returned
\* returns the same arguments and uploads nothing.
C26_UrlsAreLeftAlone ==
    /\ (a_pc # "idle" /\ AllPathArgsAreUrls) =>
          /\ a_pc \in {"sent", "again"}
          /\ \A k \in PathArgsGiven : a_out.args[k] = a_in.args[k]
          /\ a_uploads = <<>>
    /\ a_pc = "again" =>
          /\ a_again.exc = "None"
          /\ a_again.args = a_out.args
          /\ a_again.uploads = <<>>

\* a call with a workspace whose two path arguments hold three URLs, one of
\* them in capitals, has been resolved twice
C26_Witness ==
    /\ a_pc = "again"
    /\ a_in.session = "workspace"
    /\ PathArgsGiven = {K_initial_structure, K_cif_path}
    /\ a_in.args[K_initial_structure] = Lst(<<V_http, V_HTTPS>>)
    /\ a_in.args[K_cif_path] = Str(V_http)
    /\ a_again.args = a_out.args
    /\ a_out.args[K_initial_structure] = Lst(<<V_http, V_HTTPS>>)

\* C27: when resolve_args has returned, every path argument that was given as
\* a string or a list of strings holds only http://, https:// or local://
\* URLs, so that no local path reaches the tool (a blank string names no
\* path).
C27_NoLocalPathReachesTheTool ==
    a_pc \in {"sent", "again"} =>
        \A k \in PathArgsGiven :
            \A text \in TextsOf(a_out.args[k]) :
                Strip(text) = <<>> \/ IsHttpUrl(text) \/ IsLocalUrl(text)

\* the session has no workspace path, and the name of a file in the
\* workspace has been handed to the tool as it was
C27_Witness ==
    /\ a_pc = "sent"
    /\ a_in.session = "unset"
    /\ K_initial_structure \in PathArgsGiven
    /\ a_in.args[K_initial_structure] = Str(V_rel_file)
    /\ a_out.args[K_initial_structure] = Str(V_rel_file)
    /\ a_uploads = <<>>

(***************************************************************************)
(* Part VII.  SkillEvolutionExp.run (skill_evolution_exp.py:37-79).  The   *)
(* run waits in agent.run, _run_sandbox_tests and register_dynamic_skill;  *)
(* what they leave and return is an input of the step that follows.        *)
(*   e_pc: "idle", "coding" (line 51), "testing" (line 64), "registering"  *)
(*         (line 74), "returned", "raised"                                 *)
(*   e_fs: what <workspace>/new_skill and <workspace>/workspace/new_skill  *)
(*         are: "absent", "file", "empty" (a directory without SKILL.md),  *)
(*         "skill" (a directory with SKILL.md).  Runs with the same        *)
(*         task_id share the workspace.                                    *)
(*   e_registry: agent.skill_registry: "None", "plain" (it has no          *)
(*         register_dynamic_skill), "dynamic"                              *)
(*   e_log: the calls of _run_sandbox_tests and register_dynamic_skill     *)
(***************************************************************************)
\* number of runs in one behaviour
MaxEvoRuns == 2

DirKinds == {"absent", "file", "empty", "skill"}

Registries == {"None", "plain", "dynamic"}

\* skill_evolution_exp.py:55-57  new_skill_path
NewSkillPath(fs) == IF fs.top \in {"empty", "skill"} THEN "top" ELSE "nested"

\* skill_evolution_exp.py:59  (new_skill_path / "SKILL.md").exists()
HasSkillMd(fs, new_skill_path) == fs[new_skill_path] = "skill"

\* a mutant of Truthy: the result of the tests is not looked at
TruthyAlways(test_ok) == TRUE

\* skill_evolution_exp.py:65  if not test_ok
Truthy(test_ok) == test_ok = "True"

\* skill_evolution_exp.py:70  registry and its register_dynamic_skill
HasRegister(skill_registry) == skill_registry = "dynamic"

NewEvoLog == [path |-> "None", tests |-> <<>>, registered |-> <<>>]

\* skill_evolution_exp.py:37-51  run up to agent.run
EvoRun ==
    /\ e_pc \in {"idle", "returned", "raised"}
    /\ e_runs < MaxEvoRuns
    /\ e_pc' = "coding"
    /\ e_runs' = e_runs + 1
    /\ e_result' = EmptyDict
    /\ e_log' = [e_log EXCEPT !.path = "None"]
    /\ UNCHANGED <<e_fs, e_registry>>
    /\ UNCHANGED <<mgrVars, loopVars, bridgeVars, plannerVars, calcVars, adaptVars, pgVars>>

\* skill_evolution_exp.py:51-63  agent.run returns, having left fs in the
\* workspace
AgentReturns(fs) ==
    /\ e_pc = "coding"
    /\ e_fs' = fs
    /\ LET new_skill_path == NewSkillPath(fs)
       IN  IF ~HasSkillMd(fs, new_skill_path)
           THEN /\ e_pc' = "returned"
                /\ e_result' = [status |-> "failed", reason |-> "no_skill_md"]
                /\ UNCHANGED e_log
           ELSE /\ e_pc' = "testing"
                /\ e_log' = [e_log EXCEPT !.path = new_skill_path]
                /\ UNCHANGED e_result
    /\ UNCHANGED <<e_registry, e_runs>>
    /\ UNCHANGED <<mgrVars, loopVars, bridgeVars, plannerVars, calcVars, adaptVars, pgVars>>

\* skill_evolution_exp.py:51  agent.run raises
AgentRaises ==
    /\ e_pc = "coding"
    /\ e_pc' = "raised"
    /\ UNCHANGED <<e_fs, e_registry, e_result, e_runs, e_log>>
    /\ UNCHANGED <<mgrVars, loopVars, bridgeVars, plannerVars, calcVars, adaptVars, pgVars>>

\* skill_evolution_exp.py:64-72  _run_sandbox_tests returns test_ok ("True",
\* "False") or raises ("raise"), as the method of the class does (81-86)
SandboxTests(test_ok) ==
    /\ e_pc = "testing"
    /\ e_log' = [e_log EXCEPT !.tests = Append(@, [run |-> e_runs, path |-> e_log.path,
                                                   outcome |-> test_ok])]
    /\ IF test_ok = "raise"
       THEN e_pc' = "raised" /\ UNCHANGED e_result
       ELSE IF ~Truthy(test_ok)
       THEN /\ e_pc' = "returned"
            /\ e_result' = [status |-> "failed", reason |-> "tests_failed"]
       ELSE IF ~HasRegister(e_registry)
       THEN /\ e_pc' = "returned"
            /\ e_result' = [status |-> "failed", reason |-> "no_registry"]
       ELSE e_pc' = "registering" /\ UNCHANGED e_result
    /\ UNCHANGED <<e_fs, e_registry, e_runs>>
    /\ UNCHANGED <<mgrVars, loopVars, bridgeVars, plannerVars, calcVars, adaptVars, pgVars>>

\* skill_evolution_exp.py:74-79  registry.register_dynamic_skill(new_skill_path)
\* returns registered ("True", "False") or raises ("raise")
Register(registered) ==
    /\ e_pc = "registering"
    /\ e_log' = [e_log EXCEPT !.registered = Append(@, [run |-> e_runs, path |-> e_log.path])]
    /\ IF registered = "raise"
       THEN e_pc' = "raised" /\ UNCHANGED e_result
       ELSE /\ e_pc' = "returned"
            /\ e_result' = IF registered = "True"
                           THEN [status |-> "completed", skill_path |-> e_log.path]
                           ELSE [status |-> "failed", reason |-> "register_failed"]
    /\ UNCHANGED <<e_fs, e_registry, e_runs>>
    /\ UNCHANGED <<mgrVars, loopVars, bridgeVars, plannerVars, calcVars, adaptVars, pgVars>>

EvoInit ==
    /\ ManagerInit /\ BridgeIdle /\ PlannerIdle /\ CalcIdle /\ AdaptIdle /\ PgIdle
    /\ e_pc = "idle"
    /\ e_fs \in [top : DirKinds, nested : DirKinds]
    /\ e_registry \in Registries
    /\ e_result = EmptyDict
    /\ e_runs = 0
    /\ e_log = NewEvoLog

EvoNext ==
    \/ EvoRun
    \/ \E fs \in [top : DirKinds, nested : DirKinds] : AgentReturns(fs)
    \/ AgentRaises
    \/ \E test_ok \in {"True", "False", "raise"} : SandboxTests(test_ok)
    \/ \E registered \in {"True", "False", "raise"} : Register(registered)

EvoSpec == EvoInit /\ [][EvoNext]_vars

\* C28: register_dynamic_skill is called on a skill directory only in a run
\* whose sandbox tests ran on that directory and passed: never when they
\* failed, raised or were not run.
C28_RegisteredOnlyAfterTestsPassed ==
    \A i \in 1..Len(e_log.registered) :
        /\ \E j \in 1..Len(e_log.tests) :
              /\ e_log.tests[j].run = e_log.registered[i].run
              /\ e_log.tests[j].path = e_log.registered[i].path
              /\ e_log.tests[j].outcome = "True"
        /\ \A j \in 1..Len(e_log.tests) :
              e_log.tests[j].run = e_log.registered[i].run => e_log.tests[j].outcome = "True"

\* the tests of the first run failed and nothing was registered; those of
\* the second run passed on the nested directory and the skill is registered
C28_Witness ==
    /\ e_pc = "returned"
    /\ e_result = [status |-> "completed", skill_path |-> "nested"]
    /\ e_log.tests = <<[run |-> 1, path |-> "nested", outcome |-> "False"],
                       [run |-> 2, path |-> "nested", outcome |-> "True"]>>
    /\ e_log.registered = <<[run |-> 2, path |-> "nested"]>>

(***************************************************************************)
(* Part VIII.  BasePlayground.run and cleanup (core/playground.py:703-790) *)
(* with the setup they run (393-492, overridden with the same stages in    *)
(* mat_master/core/playground.py:80-178) and MatMasterPlayground.run       *)
(* (191-203), which has the same try/finally.  What each stage of setup    *)
(* and the experiment do is an input: the stage returns or raises.         *)
(*   g_mcp_manager  "unset": the instance has no attribute mcp_manager;    *)
(*                  __init__ (37-71) does not create it, _setup_tools      *)
(*                  (292) is the first to assign it                        *)
(*   g_exc          the exception that left the try block of run           *)
(*   g_log          history: error, the exception setup or the experiment  *)
(*                  raised; returned, the experiment returned; cleanups,   *)
(*                  how often cleanup was entered; cleanup_raised, what    *)
(*                  cleanup raised                                         *)
(***************************************************************************)
MaxPgRuns == 2

NewPgLog == [error |-> "none", returned |-> FALSE, cleanups |-> 0, cleanup_raised |-> "none"]

\* core/playground.py:713-725  a statement inside the try of run raises: the
\* finally clause runs cleanup with the exception in flight
PgRaise(exc) ==
    /\ g_exc' = exc
    /\ g_log' = [g_log EXCEPT !.error = exc, !.cleanups = @ + 1]
    /\ g_pc' = "cleanup_mcp"

\* a stage of setup that touches no attribute cleanup reads: it returns and
\* run goes on at `next`, or it raises
PgStage(at, next, raises, exc) ==
    /\ g_pc = at
    /\ IF raises THEN PgRaise(exc)
       ELSE g_pc' = next /\ UNCHANGED <<g_exc, g_log>>
    /\ UNCHANGED <<g_cfg, g_mcp_manager, g_mcp_loop, g_session, g_result, g_runs>>
    /\ UNCHANGED <<mgrVars, loopVars, bridgeVars, plannerVars, calcVars, adaptVars, evoVars>>

\* core/playground.py:703-714  run is called; 415  setup begins
PgRun ==
    /\ g_pc \in {"idle", "ended"}
    /\ g_runs < MaxPgRuns
    /\ g_runs' = g_runs + 1
    /\ g_pc' = "llm_config"
    /\ g_exc' = "none"
    /\ g_result' = EmptyDict
    /\ g_log' = NewPgLog
    /\ UNCHANGED <<g_cfg, g_mcp_manager, g_mcp_loop, g_session>>
    /\ UNCHANGED <<mgrVars, loopVars, bridgeVars, plannerVars, calcVars, adaptVars, evoVars>>

\* core/playground.py:233-240, 418-419  _setup_llm_config
SetupLlmConfig(raises) == PgStage("llm_config", "session", raises, "llm_config")

\* core/playground.py:242-280  _setup_session: the session object is made if
\* there is none, and opened if it is not open; either may raise
SetupSession(outcome) ==
    /\ g_pc = "session"
    /\ outcome = "create" => g_session = "None"
    /\ outcome = "open" => g_session # "open"
    /\ CASE outcome = "create" -> PgRaise("session_create") /\ UNCHANGED g_session
         [] outcome = "open"   -> PgRaise("session_open") /\ g_session' = "made"
         [] OTHER              -> /\ g_session' = "open"
                                  /\ g_pc' = "skills"
                                  /\ UNCHANGED <<g_exc, g_log>>
    /\ UNCHANGED <<g_cfg, g_mcp_manager, g_mcp_loop, g_result, g_runs>>
    /\ UNCHANGED <<mgrVars, loopVars, bridgeVars, plannerVars, calcVars, adaptVars, evoVars>>

\* core/playground.py:424-434  the skill registry is loaded
LoadSkills(raises) == PgStage("skills", "registry", raises, "skills")

\* core/playground.py:289  create_default_registry(skill_registry)
CreateRegistry(raises) == PgStage("registry", "mcp", raises, "registry")

\* core/playground.py:292-294, 494-611  self.mcp_manager = None, then, when
\* MCP is configured, _setup_mcp_tools: it returns None (no usable
\* configuration), or it raises while it parses the servers (622), or it
\* starts the loop (595-597) and returns the manager, or raises after the
\* loop was started (605)
SetupMcpTools(outcome) ==
    /\ g_pc = "mcp"
    /\ outcome # "None" => g_cfg.mcp
    /\ CASE outcome = "None" ->
              /\ g_mcp_manager' = "None"
              /\ g_pc' = "memory_tools"
              /\ UNCHANGED <<g_mcp_loop, g_exc, g_log>>
         [] outcome = "M" ->
              /\ g_mcp_manager' = "M"
              /\ g_mcp_loop' = "running"
              /\ g_pc' = "memory_tools"
              /\ UNCHANGED <<g_exc, g_log>>
         [] outcome = "parse" ->
              /\ g_mcp_manager' = "None"
              /\ PgRaise("mcp_parse")
              /\ UNCHANGED g_mcp_loop
         [] outcome = "register" ->
              /\ g_mcp_manager' = "None"
              /\ g_mcp_loop' = "running"
              /\ PgRaise("mcp_register")
    /\ UNCHANGED <<g_cfg, g_session, g_result, g_runs>>
    /\ UNCHANGED <<mgrVars, loopVars, bridgeVars, plannerVars, calcVars, adaptVars, evoVars>>

\* mat_master/core/playground.py:73-78  the memory tools and peek_file are
\* registered
RegisterMemoryTools(raises) == PgStage("memory_tools", "agent", raises, "memory_tools")

\* core/playground.py:436-492  the agent or agents are created
CreateAgent(raises) == PgStage("agent", "trajectory", raises, "agent")

\* core/playground.py:717, 666-701  _setup_trajectory_file
SetupTrajectoryFile(raises) == PgStage("trajectory", "exp", raises, "trajectory")

\* core/playground.py:720-725  _create_exp and exp.run: the experiment
\* returns its result or raises; the finally clause runs cleanup
ExpRun(raises) ==
    /\ g_pc = "exp"
    /\ IF raises THEN PgRaise("exp")
       ELSE /\ g_pc' = "cleanup_mcp"
            /\ g_log' = [g_log EXCEPT !.returned = TRUE, !.cleanups = @ + 1]
            /\ UNCHANGED g_exc
    /\ UNCHANGED <<g_cfg, g_mcp_manager, g_mcp_loop, g_session, g_result, g_runs>>
    /\ UNCHANGED <<mgrVars, loopVars, bridgeVars, plannerVars, calcVars, adaptVars, evoVars>>

\* core/playground.py:736  self.mcp_manager: the value of the attribute, or
\* AttributeError when the instance has none
McpManagerOf(attr) == IF attr = "unset" THEN "AttributeError" ELSE attr

\* core/playground.py:736-762  the first half of cleanup.  Reading the
\* attribute is outside the try: an AttributeError leaves cleanup and, as the
\* exception of the finally clause, run.  manager.cleanup() raising inside
\* fut.result() is caught and logged; the loop is then neither stopped nor
\* forgotten.
CleanupMcp(raises) ==
    /\ g_pc = "cleanup_mcp"
    /\ raises => McpManagerOf(g_mcp_manager) = "M" /\ g_mcp_loop = "running"
    /\ CASE McpManagerOf(g_mcp_manager) = "AttributeError" ->
              /\ g_pc' = "ended"
              /\ g_result' = [raised |-> "AttributeError"]
              /\ g_log' = [g_log EXCEPT !.cleanup_raised = "AttributeError"]
              /\ UNCHANGED g_mcp_loop
         [] McpManagerOf(g_mcp_manager) = "M" ->
              /\ g_mcp_loop' = IF raises THEN g_mcp_loop ELSE "None"
              /\ g_pc' = "cleanup_session"
              /\ UNCHANGED <<g_result, g_log>>
         [] OTHER ->
              /\ g_pc' = "cleanup_session"
              /\ UNCHANGED <<g_mcp_loop, g_result, g_log>>
    /\ UNCHANGED <<g_cfg, g_mcp_manager, g_session, g_exc, g_runs>>
    /\ UNCHANGED <<mgrVars, loopVars, bridgeVars, plannerVars, calcVars, adaptVars, evoVars>>

\* core/playground.py:778-790  the second half of cleanup: the session is
\* closed unless it is a Docker session that is kept; an exception of close
\* is caught and logged.  Then run ends: with the exception in flight, or
\* with the result of the experiment.
CleanupSession(raises) ==
    /\ g_pc = "cleanup_session"
    /\ raises => g_session # "None" /\ ~g_cfg.keep
    /\ g_session' = IF g_session = "None" \/ g_cfg.keep \/ raises THEN g_session ELSE "closed"
    /\ g_pc' = "ended"
    /\ g_result' = IF g_exc # "none" THEN [raised |-> g_exc] ELSE [returned |-> "result"]
    /\ UNCHANGED <<g_cfg, g_mcp_manager, g_mcp_loop, g_exc, g_runs, g_log>>
    /\ UNCHANGED <<mgrVars, loopVars, bridgeVars, plannerVars, calcVars, adaptVars, evoVars>>

\* core/playground.py:37-71  __init__: no loop, no thread, no session, and
\* no attribute mcp_manager
PgInit ==
    /\ ManagerInit /\ BridgeIdle /\ PlannerIdle /\ CalcIdle /\ AdaptIdle /\ EvoIdle
    /\ g_pc = "idle"
    /\ g_cfg \in [mcp : BOOLEAN, keep : BOOLEAN]
    /\ g_mcp_manager = "unset"
    /\ g_mcp_loop = "None"
    /\ g_session = "None"
    /\ g_exc = "none"
    /\ g_result = EmptyDict
    /\ g_runs = 0
    /\ g_log = NewPgLog

PgNext ==
    \/ PgRun
    \/ \E raises \in BOOLEAN : SetupLlmConfig(raises)
    \/ \E outcome \in {"ok", "create", "open"} : SetupSession(outcome)
    \/ \E raises \in BOOLEAN : LoadSkills(raises)
    \/ \E raises \in BOOLEAN : CreateRegistry(raises)
    \/ \E outcome \in {"None", "M", "parse", "register"} : SetupMcpTools(outcome)
    \/ \E raises \in BOOLEAN : RegisterMemoryTools(raises)
    \/ \E raises \in BOOLEAN : CreateAgent(raises)
    \/ \E raises \in BOOLEAN : SetupTrajectoryFile(raises)
    \/ \E raises \in BOOLEAN : ExpRun(raises)
    \/ \E raises \in BOOLEAN : CleanupMcp(raises)
    \/ \E raises \in BOOLEAN : CleanupSession(raises)

PlaygroundSpec == PgInit /\ [][PgNext]_vars

\* C40: run executes cleanup on every way out, cleanup does not raise
\* whatever stage setup had reached, and so run raises the error that setup
\* or the experiment raised, or returns the experiment's result.
C40_CleanupRunsAndKeepsTheError ==
    g_pc = "ended" =>
        /\ g_log.cleanups = 1
        /\ g_log.cleanup_raised = "none"
        /\ g_log.error # "none" => g_result = [raised |-> g_log.error]
        /\ g_log.error = "none" => g_result = [returned |-> "result"]

\* the same for the runs in which cleanup found the attribute: every run
\* that got as far as _setup_tools, and every run after such a run
C40_HoldsOnceToolsWereSetUp ==
    (g_pc = "ended" /\ g_mcp_manager # "unset") =>
        /\ g_log.cleanups = 1
        /\ g_log.cleanup_raised = "none"
        /\ g_log.error # "none" => g_result = [raised |-> g_log.error]
        /\ g_log.error = "none" => g_result = [returned |-> "result"]

\* the session could not be opened in the first run of a playground, and run
\* has ended
C40_Witness ==
    /\ g_pc = "ended"
    /\ g_runs = 1
    /\ g_log.error = "session_open"
    /\ g_log.cleanups = 1

====
